---- MODULE Spec2Model ----
(***************************************************************************)
(* Race simulation core of formula-e-race-simulator:                       *)
(*   SimulationEngine (engine/SimulationEngine.ts), VehicleModel,          *)
(*   PhysicsEngine and RuleBasedStrategyEngine (engine/StrategyEngine.ts). *)
(*   and the Agents: BaseAgent, LLMAgent (agents/BaseAgent.ts) and         *)
(*   RuleBasedAgent.                                                       *)
(*                                                                         *)
(* Fixed-point units used by the model                                     *)
(*   time        : 1 unit = 0.1 s of simulated time; the wall clock        *)
(*                 advances in whole seconds and the speed multiplier is   *)
(*                 kept in tenths, so deltaTime * speedMultiplier is an    *)
(*                 integer number of time units                            *)
(*   speed       : 1 unit = the speed that covers one distance unit in one *)
(*                 fixed timestep (speed * (deltaTime / 3.6) = speed)      *)
(*   progress    : 1 unit = 1/ProgressScale of a segment (0.05 = 1 unit)   *)
(*   tire wear   : 1 unit = 1/WearScale = 0.05                             *)
(*   energy      : 1 unit = 0.01                                           *)
(*   percentages : traction, intensity, severity, throttle ... in 1/100    *)
(***************************************************************************)
EXTENDS Integers, Sequences, FiniteSets, TLC

(* ------------------------------ bounds -------------------------------- *)
\* largest wall-clock gap (seconds) between two readings of performance.now()
MaxDelta == 2
\* ticks run between two initialize/reset calls at most: a frame whose ticks
\* would exceed it is not run
MaxTicks == 4
\* pending requestAnimationFrame callbacks kept at most
MaxRaf == 2
\* random events injected since construction at most
MaxDraws == 1
\* tire wear (in WearScale units) beyond which no further random event is drawn
MaxWear == 22
\* ticks run at most in the race of SpecWear
MaxWearTicks == 24
\* makeDecision calls made on the Agent at most
MaxCalls == 3
\* ticks between resets in the races of SpecRetain
MaxRetainTicks == 3
\* ticks between resets in the races of SpecPit
MaxPitTicks == 13
\* remote decisions in flight in the races of SpecRemote
MaxInFlight == 2

(* --------------------------- fixed-point scales ----------------------- *)
ProgressScale == 20
WearScale == 20
EnergyScale == 100

(* ------------------------------ helpers ------------------------------- *)
Min(a, b) == IF a <= b THEN a ELSE b
Max(a, b) == IF a >= b THEN a ELSE b
Abs(a) == IF a < 0 THEN -a ELSE a
Indices(s) == 1..Len(s)

(* ------------------------ SimulationConfig inputs --------------------- *)
\* config.fixedTimestep: one second of simulated time, in time units
FixedTimestep == 10
\* weatherProfile.initialWeather; intensity in percent
InitialWeather == [type |-> "clear", intensity |-> 0]
\* configurations handed to the constructor (speedMultiplier in tenths)
RaceConfig == [fixedTimestep |-> FixedTimestep, speedMultiplier |-> 20, totalLaps |-> 1]
Configs ==
  { RaceConfig,
    [fixedTimestep |-> FixedTimestep, speedMultiplier |-> 5, totalLaps |-> 2] }

(* --------------------------- vehicle roster inputs -------------------- *)
\* entries of vehiclesConfig: speeds in speed units, profile accelerations in
\* speed units per fixed timestep, grip in percent, energy in 1/100
VehicleConfig(id, maxSpeed, level) ==
  [id |-> id, maxSpeed |-> maxSpeed,
   accelerationProfile |-> [acceleration |-> 10, deceleration |-> 10],
   brakingProfile |-> [acceleration |-> 10, deceleration |-> 10],
   mass |-> 800, dragCoefficient |-> 0, gripCoefficient |-> 120,
   energyModel |-> [type |-> "battery", capacity |-> 100, currentLevel |-> level]]
Rosters ==
  { << >>,
    << VehicleConfig(1, 20, 100) >>,
    << VehicleConfig(1, 20, 100), VehicleConfig(2, 10, 10) >> }
\* the roster of the races run under random events
RaceRosters == { << VehicleConfig(1, 20, 100), VehicleConfig(2, 10, 10) >> }

(* ------------------------------ track inputs -------------------------- *)
\* a straight TrackSegment of 20 distance units laid out on the x axis
Segment(id) ==
  [id |-> id, type |-> "straight", length |-> 20, grip |-> 100,
   hazardLevel |-> 0, startX |-> 20 * id, endX |-> 20 * id + 20,
   obstacle |-> "none"]
Tracks == { << >>, << Segment(0) >>, << Segment(0), Segment(1) >> }
\* the track of the races run under random events
RaceTracks == { << Segment(0), Segment(1) >> }

\* 50 km/h, 5 km/h and 100 km/h of the strategy code in speed units
\* (1 speed unit = 12.5 km/h): x km/h = x * 2 / 25 units
KmhNum == 25
KmhDen == 2

\* this.track[i] with the 0-based index of the code is defined
HasSegment(tr, i) == i >= 0 /\ i < Len(tr)
\* this.track[i] when it is defined
SegmentAt(tr, i) == tr[i + 1]

(* ------------------- the pit timer: IEEE 754 doubles ------------------ *)
\* vehicle.pitStopTime is a double between 0 and 4 seconds that is a whole
\* number of units of 2^-54 s; it is held as hi * 2^28 + lo such units
Limb == 268435456
Double(hi, lo) == [hi |-> hi, lo |-> lo]
DoubleZero == Double(0, 0)

\* the double nearest to t tenths of a second: 0.3 is
\* 5404319552844595 * 2^-54, 1.0 is 2^54 * 2^-54
ToDouble(t) ==
  CASE t = 0 -> DoubleZero
    [] t = 3 -> Double(20132659, 53687091)
    [] t = 10 -> Double(67108864, 0)
    [] t = 20 -> Double(134217728, 0)
    [] t = 30 -> Double(201326592, 0)

\* a <= b
DoubleLeq(a, b) == a.hi < b.hi \/ (a.hi = b.hi /\ a.lo <= b.lo)

\* the real difference a - b of two doubles, for a > b
DoubleDifference(a, b) ==
  IF a.lo >= b.lo THEN Double(a.hi - b.hi, a.lo - b.lo)
                  ELSE Double(a.hi - b.hi - 1, a.lo + Limb - b.lo)

\* the spacing of the doubles around x in units of 2^-54: 2^-51 from 2.0,
\* 2^-52 from 1.0, 2^-53 from 0.5
DoubleUlp(x) ==
  IF x.hi >= ToDouble(20).hi THEN 8
  ELSE IF x.hi >= ToDouble(10).hi THEN 4
  ELSE IF 2 * x.hi >= ToDouble(10).hi THEN 2
  ELSE 1

\* x rounded to the nearest double, ties to the even mantissa
DoubleRound(x) ==
  LET ulp == DoubleUlp(x)
      r == x.lo % ulp
      down == x.lo - r
      up == IF 2 * r > ulp \/ (2 * r = ulp /\ (down \div ulp) % 2 = 1)
              THEN down + ulp ELSE down
  IN IF up >= Limb THEN Double(x.hi + 1, up - Limb) ELSE Double(x.hi, up)

\* a - b in double arithmetic, for a > b
DoubleMinus(a, b) == DoubleRound(DoubleDifference(a, b))

(* =========================== VehicleModel ============================= *)
\* new VehicleModel(config)
NewVehicle(c) ==
  [id |-> c.id, maxSpeed |-> c.maxSpeed,
   accelerationProfile |-> c.accelerationProfile,
   brakingProfile |-> c.brakingProfile,
   mass |-> c.mass, dragCoefficient |-> c.dragCoefficient,
   gripCoefficient |-> c.gripCoefficient,
   energyModel |-> c.energyModel,
   position |-> 0, speed |-> 0, acceleration |-> 0,
   currentSegment |-> 0, segmentProgress |-> 0, distance |-> 0, laps |-> 0,
   tireWear |-> 0, isInPit |-> FALSE, pitStopTime |-> DoubleZero,
   overtakes |-> 0, positionsLost |-> 0, hazardsTriggered |-> 0,
   lapTimes |-> << >>, currentTime |-> 0, obstacleHit |-> FALSE,
   \* history: segment transitions made since the vehicle was last placed at
   \* the start
   transitions |-> 0,
   \* history: ticks spent in the pit since the vehicle last entered it
   pitTicks |-> 0,
   \* history: obstacle penalties the vehicle has received
   penalties |-> 0]

\* VehicleModel.getSnapshot
VehicleSnapshot(v) ==
  [id |-> v.id, position |-> v.position, speed |-> v.speed,
   currentSegment |-> v.currentSegment, segmentProgress |-> v.segmentProgress,
   distance |-> v.distance, laps |-> v.laps,
   energyLevel |-> v.energyModel.currentLevel, tireWear |-> v.tireWear,
   isInPit |-> v.isInPit, overtakes |-> v.overtakes,
   positionsLost |-> v.positionsLost]

(* ============================ PhysicsEngine =========================== *)
\* the wind direction drawn by updateWeather is kept at pi/2 (crosswind):
\* |sin| = 1 and the headwind component cos is 0

\* PhysicsEngine.calculateTraction, in percent (altitude 0, bankAngle 0)
calculateTraction(v, seg, w) ==
  LET base  == seg.grip * v.gripCoefficient * (2 * WearScale - v.tireWear)
      den   == 100 * 2 * WearScale
      t     == CASE w.type = "rain" -> (base * (1000 - 4 * w.intensity)) \div (den * 1000)
                 [] w.type = "wind" -> (base * (1000 - w.intensity)) \div (den * 1000)
                 [] OTHER -> base \div den
  IN Max(10, Min(100, t))

\* PhysicsEngine.calculateDragForce divided by the mass, per fixed timestep,
\* in speed units (no headwind component)
dragAcceleration(v) == (v.dragCoefficient * v.speed * v.speed) \div v.mass

\* PhysicsEngine.calculateVehicleDynamics on a straight segment: the speed
\* change of one fixed timestep and the resulting speed
calculateVehicleDynamics(v, seg, w) ==
  LET traction == calculateTraction(v, seg, w)
      targetSpeed == (v.maxSpeed * (1000 - 3 * seg.hazardLevel)) \div 1000
      speedDiff == targetSpeed - v.speed
      maxAcceleration == (v.accelerationProfile.acceleration * traction) \div 100
      maxDeceleration == (v.brakingProfile.deceleration * traction) \div 100
      acc == IF speedDiff > 0 THEN Min(speedDiff, maxAcceleration)
                              ELSE Max(speedDiff, -maxDeceleration)
      acceleration == acc - dragAcceleration(v)
  IN [speed |-> Max(0, v.speed + acceleration), acceleration |-> acceleration]

\* PhysicsEngine.applyPhysics: the engine uses speed and acceleration only
applyPhysics(v, seg, w) == calculateVehicleDynamics(v, seg, w)

(* ====================== SimulationEngine: surroundings ================ *)
\* SimulationEngine.calculateDistance (vehicles on the x axis)
calculateDistance(v1, v2) == Abs(v1.position - v2.position)

IsAhead(v, other) ==
  other.laps > v.laps \/ (other.laps = v.laps /\ other.distance > v.distance)

\* index of the nearest vehicle of the index set S (first in roster order
\* among equals, as the stable sort leaves it); 0 when S is empty
Nearest(vs, i, S) ==
  IF S = {} THEN 0
  ELSE CHOOSE j \in S : \A k \in S :
         \/ calculateDistance(vs[i], vs[j]) < calculateDistance(vs[i], vs[k])
         \/ (calculateDistance(vs[i], vs[j]) = calculateDistance(vs[i], vs[k]) /\ j <= k)

\* SimulationEngine.calculateSurroundings: ahead[0], behind[0] (roster indices,
\* 0 when absent) and the two distances ("Infinity" when absent)
calculateSurroundings(vs, i) ==
  LET others == {j \in Indices(vs) : vs[j].id # vs[i].id}
      ahead  == {j \in others : IsAhead(vs[i], vs[j])}
      behind == others \ ahead
      a == Nearest(vs, i, ahead)
      b == Nearest(vs, i, behind)
  IN [ahead |-> a, behind |-> b,
      nearby |-> {j \in others : calculateDistance(vs[i], vs[j]) < 20},
      distanceToNext |-> IF a = 0 THEN "Infinity" ELSE calculateDistance(vs[i], vs[a]),
      distanceToPrevious |-> IF b = 0 THEN "Infinity" ELSE calculateDistance(vs[i], vs[b])]

(* ====================== RuleBasedStrategyEngine ======================= *)
\* calculateRiskTolerance with a base risk level of 1.0 instead of 0.5
calculateRiskToleranceFullBase(v, w) ==
  LET base == (2000 - 30 * v.tireWear) * v.energyModel.currentLevel
      den == 20 * EnergyScale
      r == CASE w.type = "rain" -> (base * (200 - w.intensity)) \div (den * 200)
             [] w.type = "wind" -> (base * (500 - w.intensity)) \div (den * 500)
             [] OTHER -> base \div den
  IN Max(0, Min(100, r))

\* StrategyEngine.calculateRiskTolerance, in percent
calculateRiskTolerance(v, w) ==
  LET base == (1000 - 15 * v.tireWear) * v.energyModel.currentLevel
      den == 20 * EnergyScale
      r == CASE w.type = "rain" -> (base * (200 - w.intensity)) \div (den * 200)
             [] w.type = "wind" -> (base * (500 - w.intensity)) \div (den * 500)
             [] OTHER -> base \div den
  IN Max(0, Min(100, r))

\* StrategyEngine.calculateOptimalSpeed on a straight, times 1000
calculateOptimalSpeed(seg, v, w) ==
  LET weathered == IF w.type = "rain" THEN v.maxSpeed * (1000 - 3 * w.intensity)
                                      ELSE v.maxSpeed * 1000
  IN (weathered * (1000 - 4 * seg.hazardLevel)) \div 1000

\* StrategyEngine.shouldPit
shouldPit(v, currentLp, totalLaps) ==
  IF v.tireWear * 100 > 85 * WearScale
    THEN (IF currentLp < totalLaps - 2 THEN "immediate" ELSE "none")
  ELSE IF v.energyModel.currentLevel * 100 < 15 * EnergyScale THEN "immediate"
  ELSE IF currentLp >= totalLaps - 3 /\ v.tireWear * 100 > 60 * WearScale THEN "next_lap"
  ELSE "none"

\* analyzeOvertakingOpportunity with the speed difference taken the other way
\* round (the car ahead minus this car)
analyzeOvertakingReversed(vs, i, sur, seg, riskTolerance) ==
  IF sur.ahead = 0 THEN "none"
  ELSE IF sur.distanceToNext > 50 \/ sur.distanceToNext < 2 THEN "none"
  ELSE IF (vs[sur.ahead].speed - vs[i].speed) * KmhNum < 5 * KmhDen THEN "none"
  ELSE IF seg.type \in {"corner", "hairpin"} THEN "none"
  ELSE IF seg.hazardLevel > 30 /\ riskTolerance < 70 THEN "none"
  ELSE IF sur.behind # 0 /\ sur.distanceToPrevious < 10 THEN "defend"
  ELSE IF riskTolerance > 60 THEN "attempt" ELSE "none"

\* StrategyEngine.analyzeOvertakingOpportunity
analyzeOvertakingOpportunity(vs, i, sur, seg, riskTolerance) ==
  IF sur.ahead = 0 THEN "none"
  ELSE IF sur.distanceToNext > 50 \/ sur.distanceToNext < 2 THEN "none"
  ELSE IF (vs[i].speed - vs[sur.ahead].speed) * KmhNum < 5 * KmhDen THEN "none"
  ELSE IF seg.type \in {"corner", "hairpin"} THEN "none"
  ELSE IF seg.hazardLevel > 30 /\ riskTolerance < 70 THEN "none"
  ELSE IF sur.behind # 0 /\ sur.distanceToPrevious < 10 THEN "defend"
  ELSE IF riskTolerance > 60 THEN "attempt" ELSE "none"

\* StrategyEngine.calculateEnergyStrategy
calculateEnergyStrategy(v, currentLp, totalLaps, w) ==
  LET lapsRemaining == Max(1, totalLaps - currentLp)
      level == v.energyModel.currentLevel
  IN IF level * 10 < EnergyScale * lapsRemaining THEN "aggressive"
     ELSE IF level * 100 > 15 * EnergyScale * lapsRemaining THEN "conservative"
     ELSE IF w.type = "rain" THEN "conservative"
     ELSE "balanced"

\* RuleBasedStrategyEngine.makeDecision; throttle, braking, steering in percent
RuleBasedDecision(vs, i, seg, w, currentLp, totalLaps) ==
  LET v == vs[i]
      sur == calculateSurroundings(vs, i)
      riskTolerance == calculateRiskTolerance(v, w)
      target == calculateOptimalSpeed(seg, v, w)
      gap == target - 1000 * v.speed
      span == 10 * 50 * KmhDen
      rawThrottle == IF gap > 0 THEN Min(100, (gap * KmhNum) \div span) ELSE 0
      braking == IF gap < 0 THEN Min(100, ((-gap) * KmhNum) \div span) ELSE 0
      energyManagement == calculateEnergyStrategy(v, currentLp, totalLaps, w)
      throttle == CASE energyManagement = "conservative" -> (rawThrottle * 8) \div 10
                    [] energyManagement = "aggressive" -> (rawThrottle * 11) \div 10
                    [] OTHER -> rawThrottle
  IN [throttle |-> Max(0, Min(100, throttle)),
      braking |-> Max(0, Min(100, braking)),
      steering |-> 0,
      riskLevel |-> riskTolerance,
      overtakingDecision |-> analyzeOvertakingOpportunity(vs, i, sur, seg, riskTolerance),
      pitDecision |-> shouldPit(v, currentLp, totalLaps),
      drsActivation |-> /\ seg.type = "straight"
                        /\ sur.ahead # 0
                        /\ sur.distanceToNext > 5
                        /\ sur.distanceToNext < 50
                        /\ riskTolerance > 50,
      energyManagement |-> energyManagement]

(* ========================= SimulationEngine state ===================== *)
VARIABLES
  config,             \* this.config
  vehicles,           \* this.vehicles
  track,              \* this.track
  weather,            \* this.weather
  speedMultiplier,    \* this.speedMultiplier (tenths)
  isRunning,          \* this.isRunning
  isPaused,           \* this.isPaused
  elapsedTime,        \* this.elapsedTime
  currentLap,         \* this.currentLap
  sinceUpdate,        \* performance.now() - this.lastUpdateTime (seconds)
  accumulatedTime,    \* this.accumulatedTime
  hasCallback,        \* this.stateUpdateCallback is set
  animationFrameId,   \* this.animationFrameId, 0 when undefined
  rafQueue,           \* ids of the pending requestAnimationFrame callbacks
  pc,                 \* "idle", or "loop" inside the while loop of gameLoop
  pendingUpdates,     \* updateVehicle calls suspended at their await
  eventQueue,         \* events queued in the EventManager
  emitted,            \* history: the snapshots the last step pushed to the callback
  completed,          \* history: checkRaceCompletion found the race over
  frameTicks,         \* history: ticks run by the current loop iteration
  frameBudget,        \* history: accumulatedTime right after the accumulation
  tickCount,          \* history: ticks since the last initialize/reset
  draws,              \* history: random events injected since construction
  multiplierSet,      \* history: setSpeedMultiplier was called
  pausedFor,          \* history: seconds since lastUpdateTime that the resume()
                      \* of the last step found after a pause, else 0
  halted,             \* history: stop() was called and start() has not begun
                      \* the loop since
  resetFrom,          \* history: what the reset() of the last step found, or
                      \* that the initialize() of the last step repeated the
                      \* arguments of the one before right after a reset()
                      \* (and whether that reset() found a race that had moved)
  retained,           \* history: the snapshot the consumer has kept, as it was
                      \* pushed and as it reads now
  seed,               \* history: the arguments of the last initialize(), the
                      \* vehicles its first call with them built, and the
                      \* vehicles the last initialize() or reset() left
  agentKind,          \* the class of the Agent created: "none" before
  traits,             \* RuleBasedAgent: aggressiveness, tireManagement, ...
  isActive,           \* BaseAgent.isActive
  decisionHistory,    \* BaseAgent.decisionHistory
  strategyCache,      \* LLMAgent.strategyCache, NoDecision when null
  cacheFresh,         \* LLMAgent: Date.now() < this.cacheValidUntil
  returned,           \* history: how the last makeDecision settled
  policyCalls,        \* history: policy invocations of the last makeDecision
  policyFailed,       \* history: the policy of the last makeDecision threw
  calls,              \* history: makeDecision calls since the Agent was created
  successes,          \* history: successful decisions of the active Agent
                      \* since it was created, reset or cleared
  triggerFired,       \* history: shouldUpdateStrategy returned true in the
                      \* last makeDecision of the LLMAgent
  context,            \* the StrategyContext handed to a strategy engine
  decision,           \* what RuleBasedStrategyEngine.makeDecision resolved with
  request             \* the call of LLMStrategyEngine.makeDecision: idle,
                      \* pending at its fetch, or resolved

engineVars == <<config, vehicles, track, weather, speedMultiplier, isRunning,
                isPaused, elapsedTime, currentLap, sinceUpdate, accumulatedTime,
                hasCallback, animationFrameId, rafQueue, pc, pendingUpdates,
                eventQueue>>
historyVars == <<emitted, completed, frameTicks, frameBudget,
                 tickCount, draws, multiplierSet, pausedFor,
                 halted, resetFrom, retained, seed>>
agentVars == <<agentKind, traits, isActive, decisionHistory, strategyCache,
               cacheFresh, returned, policyCalls, policyFailed, calls, successes,
               triggerFired>>
strategyVars == <<context, decision, request>>
vars == <<engineVars, historyVars, agentVars, strategyVars>>

\* raceState as emitStateUpdate and getState compute it
RaceStatus(running, paused) ==
  IF running THEN (IF paused THEN "paused" ELSE "running") ELSE "stopped"

\* EventManager.getEventsForVehicle(id): the queued events that target the
\* vehicle, all of them for id 0, in a list of its own
getEventsForVehicle(q, id) ==
  SelectSeq(q, LAMBDA e : id = 0 \/ e.targetVehicleId = id)

\* the SimulationSnapshot built by emitStateUpdate / getState; events is the
\* list handed over as its events
Snapshot(running, paused, elapsed, vs, w, lap, cfg, events) ==
  [elapsedTime |-> elapsed, raceState |-> RaceStatus(running, paused),
   vehicles |-> [i \in Indices(vs) |-> VehicleSnapshot(vs[i])],
   weather |-> w, currentLap |-> lap, totalLaps |-> cfg.totalLaps,
   events |-> events]

\* SimulationEngine.getState
getState == Snapshot(isRunning, isPaused, elapsedTime, vehicles, weather,
                     currentLap, config, << >>)

\* SimulationEngine.positionVehiclesAtStart
positionVehiclesAtStart(vs, tr) ==
  IF Len(tr) = 0 THEN vs
  ELSE [i \in Indices(vs) |->
          [vs[i] EXCEPT !.position = tr[1].startX,
                        !.currentSegment = 0,
                        !.segmentProgress = i - 1,
                        !.distance = 0,
                        !.laps = 0,
                        !.transitions = 0,
                        !.pitTicks = 0]]

\* resetFrom when the last step was no reset()
NoReset ==
  [reset |-> FALSE, running |-> FALSE, moved |-> FALSE, worn |-> FALSE,
   pitting |-> FALSE, weather |-> FALSE, queued |-> FALSE, reseeded |-> FALSE,
   \* the last step was a start() that found the pause flag set
   pausedBefore |-> FALSE]

(* ================================ Agents ============================== *)
\* a numeric field of a StrategyDecision as the policy hands it over: a
\* number (in percent), a missing field (undefined) or NaN
Num(n) == [kind |-> "number", val |-> n]
Undefined == [kind |-> "undefined", val |-> 0]
NaN == [kind |-> "NaN", val |-> 0]

\* Math.max(lo, Math.min(hi, x)): NaN unless x is a number
Clamp(lo, hi, x) == IF x.kind = "number" THEN Num(Max(lo, Min(hi, x.val))) ELSE NaN
\* x * num / den: NaN unless x is a number
Times(x, num, den) == IF x.kind = "number" THEN Num((x.val * num) \div den) ELSE NaN
\* Math.min(1.0, x)
CapAtOne(x) == IF x.kind = "number" THEN Num(Min(100, x.val)) ELSE NaN

\* a StrategyDecision
Decision(throttle, braking, steering, riskLevel, overtaking, pit, drs, energy) ==
  [throttle |-> throttle, braking |-> braking, steering |-> steering,
   riskLevel |-> riskLevel, overtakingDecision |-> overtaking,
   pitDecision |-> pit, drsActivation |-> drs, energyManagement |-> energy]

\* BaseAgent.getDefaultDecision
getDefaultDecision ==
  Decision(Num(50), Num(0), Num(0), Num(30), "none", "none", FALSE, "balanced")

\* BaseAgent.validateDecision
validateDecision(d) ==
  Decision(Clamp(0, 100, d.throttle), Clamp(0, 100, d.braking),
           Clamp(-100, 100, d.steering), Clamp(0, 100, d.riskLevel),
           IF d.overtakingDecision \in {"none", "attempt", "defend"}
             THEN d.overtakingDecision ELSE "none",
           IF d.pitDecision \in {"none", "immediate", "next_lap"}
             THEN d.pitDecision ELSE "none",
           d.drsActivation,
           IF d.energyManagement \in {"aggressive", "balanced", "conservative"}
             THEN d.energyManagement ELSE "balanced")

\* BaseAgent.maxHistorySize
maxHistorySize == 100

\* BaseAgent.addToHistory
addToHistory(h, d) ==
  LET pushed == Append(h, d)
  IN IF Len(pushed) > maxHistorySize THEN Tail(pushed) ELSE pushed

\* BaseAgent.getPerformanceMetrics().totalDecisions
totalDecisions(h) == Len(h)

\* what the policy (a StrategyEngine) can hand back: a decision within the
\* ranges, one with out-of-range numbers and invalid enumeration strings, and
\* one whose numeric and enumeration fields are missing
PolicyReturns ==
  { Decision(Num(80), Num(0), Num(10), Num(40), "attempt", "immediate", TRUE,
             "aggressive"),
    Decision(Num(150), Num(-20), Num(-200), Num(120), "ram", "now", TRUE,
             "maximum"),
    Decision(Undefined, Undefined, Undefined, Undefined, "undefined",
             "undefined", FALSE, "undefined") }

\* how a call of strategyEngine.makeDecision settles: it resolves with one
\* of PolicyReturns, or it throws / rejects
PolicyOutcomes ==
  { [threw |-> FALSE, decision |-> d] : d \in PolicyReturns }
    \cup { [threw |-> TRUE, decision |-> getDefaultDecision] }

\* the traits a RuleBasedAgent is configured with
TraitSets ==
  { [aggressiveness |-> "balanced", tireManagement |-> "average",
     fuelStrategy |-> "medium"],
    [aggressiveness |-> "aggressive", tireManagement |-> "excellent",
     fuelStrategy |-> "short"],
    [aggressiveness |-> "conservative", tireManagement |-> "poor",
     fuelStrategy |-> "long"] }

\* RuleBasedAgent.applyAgentTraits; tireWear is context.vehicle.tireWear in
\* percent, overtakeFails and defenseFails are the outcomes of the two
\* Math.random() rolls against the success rates
applyAgentTraits(t, base, tireWear, overtakeFails, defenseFails) ==
  LET d1 == CASE t.aggressiveness = "aggressive" ->
                   [base EXCEPT !.throttle = CapAtOne(Times(base.throttle, 11, 10)),
                                !.riskLevel = CapAtOne(Times(base.riskLevel, 12, 10))]
              [] t.aggressiveness = "conservative" ->
                   [base EXCEPT !.throttle = Times(@, 9, 10),
                                !.riskLevel = Times(@, 8, 10)]
              [] OTHER -> base
      d2 == IF t.tireManagement = "excellent" /\ tireWear > 70
              THEN (IF d1.pitDecision = "none"
                      THEN [d1 EXCEPT !.pitDecision = "next_lap"] ELSE d1)
            ELSE IF t.tireManagement = "poor" /\ tireWear < 90
              THEN (IF d1.pitDecision = "immediate"
                      THEN [d1 EXCEPT !.pitDecision = "next_lap"] ELSE d1)
            ELSE d1
      d3 == CASE t.fuelStrategy = "long" ->
                   [d2 EXCEPT !.energyManagement = "conservative",
                              !.throttle = Times(@, 9, 10)]
              [] t.fuelStrategy = "short" ->
                   [d2 EXCEPT !.energyManagement = "aggressive",
                              !.throttle = CapAtOne(Times(@, 105, 100))]
              [] OTHER -> d2
      d4 == IF base.overtakingDecision = "attempt" /\ overtakeFails
              THEN [d3 EXCEPT !.overtakingDecision = "defend",
                              !.riskLevel = Times(@, 7, 10)]
              ELSE d3
  IN IF base.overtakingDecision = "defend" /\ defenseFails
       THEN [d4 EXCEPT !.overtakingDecision = "none",
                       !.braking = CapAtOne(Times(@, 12, 10))]
       ELSE d4

\* how a makeDecision promise settles; no call settled in the last step
Resolved(d) == [outcome |-> "resolved", decision |-> << d >>]
Rejected == [outcome |-> "rejected", decision |-> << >>]
NoReturn == [outcome |-> "none", decision |-> << >>]

(* ======================= strategy engines: inputs ===================== *)
\* the StrategyContext of the vehicle at index 2 (B): vehicle A runs gap
\* distance units ahead of it at aSpeed, a third vehicle runs behindGap units
\* behind it when behindGap > 0; wear in 1/20, level in 1/100
Context(aSpeed, bSpeed, gap, behindGap, wear, level, segType, hazard, w, lap, total) ==
  LET A == [NewVehicle(VehicleConfig(1, 20, 100)) EXCEPT
              !.speed = aSpeed, !.position = 20 + gap, !.distance = 20 + gap]
      B == [NewVehicle(VehicleConfig(2, 20, level)) EXCEPT
              !.speed = bSpeed, !.position = 20, !.distance = 20, !.tireWear = wear]
      C == [NewVehicle(VehicleConfig(3, 20, 100)) EXCEPT
              !.speed = bSpeed, !.position = 20 - behindGap, !.distance = 20 - behindGap]
  IN [vehicles |-> IF behindGap > 0 THEN <<A, B, C>> ELSE <<A, B>>,
      index |-> 2,
      segment |-> [Segment(0) EXCEPT !.type = segType, !.hazardLevel = hazard],
      weather |-> w, currentLap |-> lap, totalLaps |-> total]

\* no strategy engine has been handed a context
NoContext ==
  [vehicles |-> << >>, index |-> 0, segment |-> Segment(0),
   weather |-> InitialWeather, currentLap |-> 0, totalLaps |-> 0]

\* contexts around the thresholds of shouldPit: tire wear 0.5, 0.65, 0.85 and
\* 0.9, energy 0.1, 0.14, 0.15 and 1, laps 0, 7, 8 and 9 of 10
PitContexts ==
  { Context(5, 5, 3, 0, wear, level, "straight", 0, InitialWeather, lap, 10) :
      wear \in {10, 13, 17, 18}, level \in {10, 14, 15, 100}, lap \in {0, 7, 8, 9} }

\* contexts around the thresholds of analyzeOvertakingOpportunity: B slower
\* than, as fast as and 12.5 km/h faster than A (62.5 km/h), a gap of 1 and of
\* 3, a car 5 or 15 behind or none, energy levels that give risk tolerances
\* of 0.5, 0.65 and 1 in clear weather, hazard levels 0 and 0.5
OvertakeContexts ==
  { Context(5, bSpeed, gap, behindGap, 0, level, segType, hazard, w, 0, 10) :
      bSpeed \in {4, 5, 6}, gap \in {1, 3}, behindGap \in {0, 5, 15},
      level \in {100, 130, 100 * EnergyScale},
      segType \in {"straight", "corner"}, hazard \in {0, 50},
      w \in {InitialWeather, [type |-> "rain", intensity |-> 50]} }

\* the same in wind of intensity 0.5 and 1, with energy levels of 0.5 and 1
WindContexts ==
  { Context(5, bSpeed, gap, 0, wear, level, "straight", 0, w, 0, 10) :
      bSpeed \in {4, 6}, gap \in {1, 3}, wear \in {0, WearScale},
      level \in {50, 100},
      w \in {[type |-> "wind", intensity |-> 50], [type |-> "wind", intensity |-> 100]} }

Contexts == PitContexts \cup OvertakeContexts \cup WindContexts

(* ========================== LLMStrategyEngine ========================= *)
\* a field of the provider's JSON body that holds a string where a number
\* is expected
Text == [kind |-> "string", val |-> 0]

\* x || d of JavaScript on a numeric field: undefined, NaN and 0 are falsy
OrDefault(x, d) ==
  IF x.kind \in {"undefined", "NaN"} \/ (x.kind = "number" /\ x.val = 0) THEN d ELSE x

\* x || d on a string field ("undefined" stands for a missing field)
OrDefaultString(x, d) == IF x = "undefined" THEN d ELSE x

\* the decision LLMStrategyEngine.makeDecision builds from the parsed body
sanitize(llmDecision) ==
  Decision(Clamp(0, 100, OrDefault(llmDecision.throttle, Num(50))),
           Clamp(0, 100, OrDefault(llmDecision.braking, Num(0))),
           Clamp(-100, 100, OrDefault(llmDecision.steering, Num(0))),
           Clamp(0, 100, OrDefault(llmDecision.riskLevel, Num(50))),
           OrDefaultString(llmDecision.overtakingDecision, "none"),
           OrDefaultString(llmDecision.pitDecision, "none"),
           llmDecision.drsActivation,
           OrDefaultString(llmDecision.energyManagement, "balanced"))

\* a decision of RuleBasedStrategyEngine as a StrategyDecision record
AsDecision(d) ==
  Decision(Num(d.throttle), Num(d.braking), Num(d.steering), Num(d.riskLevel),
           d.overtakingDecision, d.pitDecision, d.drsActivation, d.energyManagement)

\* new RuleBasedStrategyEngine().makeDecision(context) of the catch block
fallbackDecision(ctx) ==
  AsDecision(RuleBasedDecision(ctx.vehicles, ctx.index, ctx.segment, ctx.weather,
                               ctx.currentLap, ctx.totalLaps))

\* bodies the provider can answer with: the three of PolicyReturns, one
\* within the ranges whose throttle and risk level are 0, and one with
\* strings in the numeric fields
ResponseBodies ==
  PolicyReturns \cup
    { Decision(Num(0), Num(0), Num(0), Num(0), "defend", "next_lap", FALSE,
               "conservative"),
      Decision(Text, Text, Text, Text, "attempt", "none", TRUE, "balanced") }

\* how the provider answers a fetch: a 2xx response with a JSON body, a
\* non-2xx status, a network error, or a 2xx response whose body is no JSON
Answers ==
  { [kind |-> "ok", body |-> b] : b \in ResponseBodies }
    \cup { [kind |-> k, body |-> getDefaultDecision] :
             k \in {"error_status", "network_error", "malformed_body"} }

\* what LLMStrategyEngine.makeDecision resolves with once the provider has
\* answered
LLMDecision(a, ctx) ==
  IF a.kind = "ok" THEN sanitize(a.body) ELSE fallbackDecision(ctx)

\* no call of LLMStrategyEngine.makeDecision has been made
NoRequest ==
  [state |-> "idle", provider |-> "none", answer |-> "none", body |-> << >>,
   result |-> << >>]

\* no strategy engine has been called
NoStrategy ==
  /\ context = NoContext
  /\ decision = << >>
  /\ request = NoRequest

\* no Agent has been created
NoAgent ==
  /\ agentKind = "none"
  /\ traits = CHOOSE t \in TraitSets : t.aggressiveness = "balanced"
  /\ isActive = TRUE
  /\ decisionHistory = << >>
  /\ strategyCache = << >>
  /\ cacheFresh = FALSE
  /\ returned = NoReturn
  /\ policyCalls = 0
  /\ policyFailed = FALSE
  /\ calls = 0
  /\ successes = 0
  /\ triggerFired = FALSE

\* constructor, handed one of the configurations of C
InitEngine(C) ==
  /\ config \in C
  /\ vehicles = << >>
  /\ track = << >>
  /\ weather = InitialWeather
  /\ speedMultiplier = 10
  /\ isRunning = FALSE
  /\ isPaused = FALSE
  /\ elapsedTime = 0
  /\ currentLap = 0
  /\ sinceUpdate = 0
  /\ accumulatedTime = 0
  /\ hasCallback = FALSE
  /\ animationFrameId = 0
  /\ rafQueue = << >>
  /\ pc = "idle"
  /\ pendingUpdates = << >>
  /\ eventQueue = << >>
  /\ emitted = << >>
  /\ completed = FALSE
  /\ frameTicks = 0
  /\ frameBudget = 0
  /\ tickCount = 0
  /\ draws = 0
  /\ multiplierSet = FALSE
  /\ pausedFor = 0
  /\ halted = FALSE
  /\ resetFrom = NoReset
  /\ retained = << >>
  /\ seed = [roster |-> << >>, track |-> << >>, first |-> << >>, start |-> << >>]
  /\ NoAgent

\* the engine is constructed and no strategy engine has been called
InitWith(C) == InitEngine(C) /\ NoStrategy

Init == InitWith(Configs)

(* ============================ EventManager ============================ *)
\* a queued SimulationEvent; severity in percent
Event(type, target, severity, segmentId, obstacleType) ==
  [type |-> type, targetVehicleId |-> target, severity |-> severity,
   segmentId |-> segmentId, obstacleType |-> obstacleType]

\* this.vehicles.find(v => v.id === id): roster index, 0 when not found
FindVehicle(vs, id) ==
  IF \E i \in Indices(vs) : vs[i].id = id
    THEN CHOOSE i \in Indices(vs) : vs[i].id = id /\ \A j \in 1..(i - 1) : vs[j].id # id
    ELSE 0

\* the subscriptions of setupEventSubscriptions applied to one event
HandleEvent(st, e) ==
  LET i == FindVehicle(st.vehicles, e.targetVehicleId)
  IN CASE e.type = "breakdown" /\ i # 0 ->
            [st EXCEPT !.vehicles[i].speed = (@ * (200 - e.severity)) \div 200]
       [] e.type = "collision" /\ i # 0 ->
            [st EXCEPT !.vehicles[i].speed = (@ * (1000 - 3 * e.severity)) \div 1000,
                       !.vehicles[i].tireWear = @ + (e.severity * WearScale) \div 1000]
       [] e.type = "obstacle_appear" /\ HasSegment(st.track, e.segmentId) ->
            [st EXCEPT !.track[e.segmentId + 1].obstacle = e.obstacleType]
       [] OTHER -> st

\* EventManager.process: every queued event is dispatched once, in queue
\* order, and removed
RECURSIVE ProcessEvents(_, _)
ProcessEvents(st, q) ==
  IF q = << >> THEN st ELSE ProcessEvents(HandleEvent(st, Head(q)), Tail(q))

(* =================== SimulationEngine: per-vehicle work =============== *)
\* SimulationEngine.applyStrategyDecisions
applyStrategyDecisions(st, i, d) ==
  LET v0 == st.vehicles[i]
      v1 == IF d.throttle > 0 THEN [v0 EXCEPT !.acceleration = d.throttle * 15] ELSE v0
      v2 == IF d.braking > 0 THEN [v1 EXCEPT !.speed = (@ * (1000 - d.braking)) \div 1000] ELSE v1
      v3 == IF d.steering # 0 THEN [v2 EXCEPT !.speed = (@ * (500 - Abs(d.steering))) \div 500] ELSE v2
      v4 == IF d.drsActivation THEN [v3 EXCEPT !.speed = (@ * 11) \div 10] ELSE v3
      attempt == d.overtakingDecision = "attempt"
      v5 == IF attempt THEN [v4 EXCEPT !.speed = (@ * 21) \div 20] ELSE v4
  IN [st EXCEPT !.vehicles[i] = v5,
                !.eventQueue = IF attempt
                                 THEN Append(@, Event("overtake_attempt", v0.id, 0, 0, "none"))
                                 ELSE @]

\* every segment transition taken for a completed lap
AnyTransitionCompletesLap(nextIndex) == nextIndex >= 0

\* the lap-completion test of updateVehiclePosition: the index has wrapped
\* to the start segment
CompletesLap(nextIndex) == nextIndex = 0

\* updateVehiclePosition without its delete of the obstacle marker
updateVehiclePositionKeepsMarker(st, i, elapsed) ==
  LET v0 == st.vehicles[i]
      segment == SegmentAt(st.track, v0.currentSegment)
  IN IF ~HasSegment(st.track, v0.currentSegment) THEN st
     ELSE
       LET hit == segment.obstacle # "none"
           v1 == IF hit THEN [v0 EXCEPT !.speed = (@ * 3) \div 10,
                                        !.tireWear = @ + WearScale \div 20,
                                        !.obstacleHit = TRUE,
                                        !.penalties = @ + 1]
                        ELSE [v0 EXCEPT !.obstacleHit = FALSE]
           tr1 == st.track
           distanceTraveled == v1.speed
           progress == v1.segmentProgress + (distanceTraveled * ProgressScale) \div segment.length
           wraps == progress >= ProgressScale
           nextIndex == (v1.currentSegment + 1) % Len(tr1)
           v2 == IF wraps
                   THEN [v1 EXCEPT !.segmentProgress = progress - ProgressScale,
                                   !.currentSegment = nextIndex,
                                   !.transitions = @ + 1,
                                   !.laps = IF CompletesLap(nextIndex) THEN @ + 1 ELSE @,
                                   !.lapTimes = IF CompletesLap(nextIndex) /\ Len(@) > 0
                                                  THEN Append(@, elapsed - v1.currentTime) ELSE @,
                                   !.currentTime = IF CompletesLap(nextIndex) /\ Len(v1.lapTimes) > 0
                                                     THEN elapsed ELSE @,
                                   !.position = tr1[nextIndex + 1].startX]
                   ELSE [v1 EXCEPT !.segmentProgress = progress,
                                   !.position = segment.startX
                                     + ((segment.endX - segment.startX) * progress) \div ProgressScale]
       IN [st EXCEPT !.track = tr1,
                     !.vehicles[i] = [v2 EXCEPT !.distance = @ + distanceTraveled]]

\* SimulationEngine.updateVehiclePosition
updateVehiclePosition(st, i, elapsed) ==
  LET v0 == st.vehicles[i]
      segment == SegmentAt(st.track, v0.currentSegment)
  IN IF ~HasSegment(st.track, v0.currentSegment) THEN st
     ELSE
       LET hit == segment.obstacle # "none"
           v1 == IF hit THEN [v0 EXCEPT !.speed = (@ * 3) \div 10,
                                        !.tireWear = @ + WearScale \div 20,
                                        !.obstacleHit = TRUE,
                                        !.penalties = @ + 1]
                        ELSE [v0 EXCEPT !.obstacleHit = FALSE]
           tr1 == IF hit THEN [st.track EXCEPT ![v0.currentSegment + 1].obstacle = "none"]
                         ELSE st.track
           distanceTraveled == v1.speed
           progress == v1.segmentProgress + (distanceTraveled * ProgressScale) \div segment.length
           wraps == progress >= ProgressScale
           nextIndex == (v1.currentSegment + 1) % Len(tr1)
           v2 == IF wraps
                   THEN [v1 EXCEPT !.segmentProgress = progress - ProgressScale,
                                   !.currentSegment = nextIndex,
                                   !.transitions = @ + 1,
                                   !.laps = IF CompletesLap(nextIndex) THEN @ + 1 ELSE @,
                                   !.lapTimes = IF CompletesLap(nextIndex) /\ Len(@) > 0
                                                  THEN Append(@, elapsed - v1.currentTime) ELSE @,
                                   !.currentTime = IF CompletesLap(nextIndex) /\ Len(v1.lapTimes) > 0
                                                     THEN elapsed ELSE @,
                                   !.position = tr1[nextIndex + 1].startX]
                   ELSE [v1 EXCEPT !.segmentProgress = progress,
                                   !.position = segment.startX
                                     + ((segment.endX - segment.startX) * progress) \div ProgressScale]
       IN [st EXCEPT !.track = tr1,
                     !.vehicles[i] = [v2 EXCEPT !.distance = @ + distanceTraveled]]

\* SimulationEngine.canEnterPit
canEnterPit(v) == ~v.isInPit /\ v.currentSegment = 0

\* the pit stop lasts 3.0 s
PitStopDuration == 30

\* SimulationEngine.enterPit
enterPit(st, i) ==
  [st EXCEPT !.vehicles[i].isInPit = TRUE,
             !.vehicles[i].pitStopTime = ToDouble(PitStopDuration),
             !.vehicles[i].pitTicks = 0,
             !.eventQueue = Append(@, Event("pit_stop", st.vehicles[i].id, 0, 0, "none"))]

\* SimulationEngine.updatePitStop: the timer minus deltaTime is 0 or less
\* exactly when the timer is at most deltaTime
updatePitStop(v, deltaTime) ==
  IF DoubleLeq(v.pitStopTime, ToDouble(deltaTime))
    THEN [v EXCEPT !.isInPit = FALSE, !.tireWear = 0,
                   !.energyModel.currentLevel = v.energyModel.capacity,
                   !.pitStopTime = DoubleZero, !.pitTicks = @ + 1]
    ELSE [v EXCEPT !.pitStopTime = DoubleMinus(@, ToDouble(deltaTime)),
                   !.pitTicks = @ + 1]

\* the decision a remote provider answers with, once sanitized
RemoteDecision ==
  [throttle |-> 100, braking |-> 0, steering |-> 0, riskLevel |-> 50,
   overtakingDecision |-> "none", pitDecision |-> "none",
   drsActivation |-> FALSE, energyManagement |-> "balanced"]

\* BaseAgent.getDefaultDecision in the units of the engine
SafeDefaultDecision ==
  [throttle |-> 50, braking |-> 0, steering |-> 0, riskLevel |-> 30,
   overtakingDecision |-> "none", pitDecision |-> "none",
   drsActivation |-> FALSE, energyManagement |-> "balanced"]

\* SimulationEngine.updateVehicle after its await: u holds the captured
\* vehicle, segment and decision; st the vehicles, track and event queue.
\* When makeDecision rejected, the await throws and updateVehicle ends there
ResumeUpdate(st, u, w, elapsed) ==
  IF u.failed THEN st ELSE
  LET i == u.vehicle
      s1 == applyStrategyDecisions(st, i, u.decision)
      physicsResult == applyPhysics(s1.vehicles[i], u.segment, w)
      s2 == [s1 EXCEPT !.vehicles[i].speed = physicsResult.speed,
                       !.vehicles[i].acceleration =
                           IF @ = 0 THEN 100 * physicsResult.acceleration ELSE @]
      s3 == updateVehiclePosition(s2, i, elapsed)
  IN IF u.decision.pitDecision = "immediate" /\ canEnterPit(s3.vehicles[i])
       THEN enterPit(s3, i) ELSE s3

\* the microtask checkpoint: the suspended updateVehicle calls run in the
\* order in which they were suspended
RECURSIVE RunPending(_, _, _, _)
RunPending(st, q, w, elapsed) ==
  IF q = << >> THEN st
  ELSE RunPending(ResumeUpdate(st, Head(q), w, elapsed), Tail(q), w, elapsed)

\* the obstacle hazards of updateVehicle's context: the segments at most three
\* indices away from the vehicle's that carry an obstacle marker
Hazards(tr, v) ==
  {[type |-> tr[n + 1].obstacle, segmentId |-> n, distance |-> Abs(n - v.currentSegment)] :
     n \in {m \in 0..(Len(tr) - 1) :
              tr[m + 1].obstacle # "none" /\ Abs(m - v.currentSegment) <= 3}}

\* the StrategyContext updateVehicle hands to makeDecision for the k-th
\* vehicle, as a policy reads it during the call: the nearest vehicle ahead
\* and behind are the roster's own VehicleModel objects
BuildContext(vs, tr, k, w) ==
  LET sur == calculateSurroundings(vs, k)
  IN [vehicle |-> vs[k].id,
      ahead |-> IF sur.ahead = 0 THEN << >> ELSE << vs[sur.ahead] >>,
      behind |-> IF sur.behind = 0 THEN << >> ELSE << vs[sur.behind] >>,
      nearby |-> {vs[j].id : j \in sur.nearby},
      distanceToNext |-> sur.distanceToNext,
      distanceToPrevious |-> sur.distanceToPrevious,
      weather |-> w,
      hazards |-> Hazards(tr, vs[k])]

(* ======================= SimulationEngine: tick ======================= *)
\* severity and intensity drawn from Math.random(), in percent
DrawnSeverity == 50
DrawnIntensity == 50

\* what the Math.random() draws of updateWeather and injectRandomEvents can
\* produce in one tick, in the order of emission; one slot per draw
Candidates(vs, tr, kinds) ==
  LET worn == \E i \in Indices(vs) : vs[i].tireWear >= MaxWear
      wx == << [slot |-> <<"weather">>, weather |-> [type |-> "rain", intensity |-> DrawnIntensity]],
               [slot |-> <<"weather">>, weather |-> [type |-> "wind", intensity |-> DrawnIntensity]] >>
      perVehicle(i) ==
        (IF vs[i].energyModel.currentLevel * 100 < 20 * EnergyScale
           THEN << [slot |-> <<"battery_low", i>>,
                    event |-> Event("battery_low", vs[i].id, 0, 0, "none")] >>
           ELSE << >>)
        \o << [slot |-> <<"breakdown", i>>,
               event |-> Event("breakdown", vs[i].id, DrawnSeverity, 0, "none")] >>
      obstacle(k) == [slot |-> <<"obstacle">>,
                      event |-> Event("obstacle_appear", 0, 0, k, "debris")]
      obstacles == IF worn THEN << >>
                   ELSE [k \in 1..Max(1, Len(tr)) |-> obstacle(k - 1)]
      collision(i, j) ==
        IF ~worn /\ i < j /\ calculateDistance(vs[i], vs[j]) < 5
          THEN << [slot |-> <<"collision", i, j>>,
                   event |-> Event("collision", vs[i].id, DrawnSeverity, 0, "none")] >>
          ELSE << >>
      vehiclesPart[i \in 0..Len(vs)] ==
        IF i = 0 THEN << >> ELSE vehiclesPart[i - 1] \o perVehicle(i)
      pairsPart[n \in 0..(Len(vs) * Len(vs))] ==
        IF n = 0 THEN << >>
        ELSE pairsPart[n - 1] \o collision(((n - 1) \div Len(vs)) + 1, ((n - 1) % Len(vs)) + 1)
      all == wx \o vehiclesPart[Len(vs)] \o obstacles \o pairsPart[Len(vs) * Len(vs)]
  IN SelectSeq(all, LAMBDA x : x.slot[1] \in kinds)

\* the outcomes of the draws of one tick: at most limit of the candidates,
\* at most one per slot
RECURSIVE Draws(_, _)
Draws(c, limit) ==
  IF limit <= 0 THEN { {} }
  ELSE LET fewer == Draws(c, limit - 1)
           free(S) == {b \in Indices(c) : \A x \in S : c[x].slot # c[b].slot}
       IN fewer \cup UNION { { S \cup {a} : a \in free(S) } : S \in fewer }

\* SimulationEngine.updateWeather under the draw S
updateWeather(w, c, S) ==
  IF \E a \in S : c[a].slot = <<"weather">>
    THEN c[CHOOSE a \in S : c[a].slot = <<"weather">>].weather
    ELSE w

\* the events emitted by updateWeather and injectRandomEvents under the draw S
RECURSIVE injectRandomEvents(_, _, _)
injectRandomEvents(c, S, k) ==
  IF k > Len(c) THEN << >>
  ELSE (IF k \in S
          THEN << IF c[k].slot = <<"weather">>
                    THEN Event("weather_change", 0, 0, 0, "none")
                    ELSE c[k].event >>
          ELSE << >>) \o injectRandomEvents(c, S, k + 1)

\* the vehicles.forEach of tick: a pitting vehicle is updated at once, the
\* updateVehicle of any other vehicle builds its context, obtains the
\* decision and suspends at its await. st.failing are the vehicles whose
\* strategy engine rejects in this tick, st.remote the ones whose strategy
\* engine asks a remote provider
RECURSIVE UpdateEach(_, _, _, _, _)
UpdateEach(k, st, w, lap, cfg) ==
  IF k > Len(st.vehicles) THEN st
  ELSE
    LET v == st.vehicles[k]
        segment == SegmentAt(st.track, v.currentSegment)
        next ==
          IF v.isInPit
            THEN [st EXCEPT !.vehicles[k] = updatePitStop(v, cfg.fixedTimestep)]
          ELSE IF ~HasSegment(st.track, v.currentSegment) THEN st
          ELSE [st EXCEPT !.pending = Append(@,
                  [vehicle |-> k, segment |-> segment,
                   failed |-> k \in st.failing,
                   remote |-> k \in st.remote,
                   context |-> BuildContext(st.vehicles, st.track, k, w),
                   decision |-> IF k \in st.remote
                                  THEN RemoteDecision
                                  ELSE RuleBasedDecision(st.vehicles, k, segment, w,
                                                         lap, cfg.totalLaps)])]
    IN UpdateEach(k + 1, next, w, lap, cfg)

\* n ticks without random draws, each in a loop iteration of its own, so that
\* the updateVehicle calls a tick suspends run before the next tick starts;
\* shown are the vehicles as the last tick's emitStateUpdate maps them
RECURSIVE ReferenceRun(_, _, _, _, _)
ReferenceRun(st, cfg, w, lap, n) ==
  IF n = 0 \/ Len(st.vehicles) = 0 THEN st
  ELSE
    LET elapsed == st.elapsedTime + cfg.fixedTimestep
        processed == ProcessEvents([vehicles |-> st.vehicles, track |-> st.track],
                                   st.eventQueue)
        updated == UpdateEach(1, [vehicles |-> processed.vehicles,
                                  track |-> processed.track, pending |-> << >>,
                                  failing |-> {}, remote |-> {}],
                              w, lap, cfg)
        settled == RunPending([vehicles |-> updated.vehicles, track |-> updated.track,
                               eventQueue |-> << >>],
                              updated.pending, w, elapsed)
    IN ReferenceRun([vehicles |-> settled.vehicles, track |-> settled.track,
                     eventQueue |-> settled.eventQueue, elapsedTime |-> elapsed,
                     shown |-> updated.vehicles],
                    cfg, w, lap, n - 1)

\* the vehicle this.vehicles.reduce leaves in checkRaceCompletion
RECURSIVE LeadingVehicle(_, _, _)
LeadingVehicle(vs, k, prev) ==
  IF k > Len(vs) THEN prev
  ELSE LeadingVehicle(vs, k + 1,
         IF vs[k].laps > prev.laps
            \/ (vs[k].laps = prev.laps /\ vs[k].distance > prev.distance)
           THEN vs[k] ELSE prev)

\* the condition under which checkRaceCompletion stops the race
raceIsOver(vs, cfg) ==
  /\ Len(vs) > 0
  /\ LeadingVehicle(vs, 2, vs[1]).laps >= cfg.totalLaps

\* cancelAnimationFrame(id)
cancelAnimationFrame(q, id) == SelectSeq(q, LAMBDA x : x # id)

\* the id requestAnimationFrame returns: one that no pending callback and
\* no stored id carries
FreshId(q, id) ==
  CHOOSE n \in 1..(Len(q) + 2) :
    /\ n # id /\ \A k \in Indices(q) : q[k] # n
    /\ \A m \in 1..(n - 1) : m = id \/ \E k \in Indices(q) : q[k] = m

(* ==================== SimulationEngine: operations ==================== *)
\* Object.assign(this.weather, ...) in place of the assignment: a snapshot
\* whose weather field is still the engine's weather object reads the new
\* weather
AssignWeatherInPlace(r, w) ==
  [r EXCEPT !.now.weather = IF r.sharesWeather THEN w ELSE @]

\* this.weather = { ... } in updateWeather and reset: the engine turns to a
\* new object, and the object a kept snapshot refers to is left as it was
ReplaceWeather(r, w) == [r EXCEPT !.sharesWeather = FALSE]

\* values handed to setSpeedMultiplier, in tenths
MultiplierInputs == {0, 150}

\* emitStateUpdate: n snapshots of the state given are pushed to the callback
EmitStateUpdate(n, running, paused, elapsed, vs, w, lap, q) ==
  emitted' = IF hasCallback
               THEN [k \in 1..n |-> Snapshot(running, paused, elapsed, vs, w, lap, config,
                                             getEventsForVehicle(q, 0))]
               ELSE << >>

\* the entry of gameLoop, deltaTime seconds after lastUpdateTime
GameLoopEntry(running, paused, deltaTime) ==
  IF ~running \/ paused
    THEN /\ pc' = "idle"
         /\ UNCHANGED <<accumulatedTime, frameTicks, frameBudget>>
    ELSE /\ accumulatedTime' = accumulatedTime + deltaTime * config.speedMultiplier
         /\ pc' = "loop"
         /\ frameTicks' = 0
         /\ frameBudget' = accumulatedTime + deltaTime * config.speedMultiplier

\* the loop condition with > in place of >=
MoreThanTimestepLeft == accumulatedTime > config.fixedTimestep

\* the condition of the while loop of gameLoop
WholeTimestepLeft == accumulatedTime >= config.fixedTimestep

\* the wall clock advances by one second
Advance ==
  /\ pc = "idle"
  /\ UNCHANGED <<agentVars, strategyVars>>
  /\ UNCHANGED <<retained, seed>>
  /\ sinceUpdate < MaxDelta
  /\ sinceUpdate' = sinceUpdate + 1
  /\ emitted' = << >>
  /\ resetFrom' = NoReset
  /\ UNCHANGED <<config, vehicles, track, weather, speedMultiplier, isRunning,
                 isPaused, elapsedTime, currentLap, accumulatedTime, hasCallback,
                 animationFrameId, rafQueue, pc, pendingUpdates, eventQueue, completed, frameTicks, frameBudget, tickCount,
                 draws, multiplierSet, pausedFor, halted>>

\* this.vehicles.push(...) in place of the assignment: the vehicles built are
\* added to the ones the engine holds
AppendVehicles(vs, created) == vs \o created

\* this.vehicles = vehiclesConfig.map(...): the array the engine held is
\* replaced by the vehicles built from the configurations
ReplaceVehicles(vs, created) == created

\* SimulationEngine.initialize with a roster of R and a track of T
InitializeWith(R, T) ==
  /\ pc = "idle"
  /\ UNCHANGED <<agentVars, strategyVars>>
  /\ UNCHANGED retained
  /\ \E roster \in R, tr \in T :
       /\ vehicles' = positionVehiclesAtStart(
                        ReplaceVehicles(vehicles,
                          [i \in Indices(roster) |-> NewVehicle(roster[i])]), tr)
       /\ track' = tr
       /\ seed' = [roster |-> roster, track |-> tr,
                   first |-> IF seed.roster = roster /\ seed.track = tr
                               THEN seed.first ELSE vehicles',
                   start |-> vehicles']
       /\ resetFrom' = [NoReset EXCEPT
                          !.reseeded = /\ resetFrom.reset
                                       /\ seed.roster = roster /\ seed.track = tr,
                          !.moved = resetFrom.reset /\ resetFrom.moved]
  /\ elapsedTime' = 0
  /\ currentLap' = 0
  /\ isRunning' = FALSE
  /\ isPaused' = FALSE
  /\ accumulatedTime' = 0
  /\ emitted' = << >>
  /\ completed' = FALSE
  /\ tickCount' = 0
  /\ UNCHANGED <<config, weather, speedMultiplier, sinceUpdate, hasCallback,
                 animationFrameId, rafQueue, pc, pendingUpdates, eventQueue,
                 frameTicks, frameBudget, draws, multiplierSet, pausedFor, halted>>

Initialize == InitializeWith(Rosters, Tracks)

\* the race is set up as the user interface does it: the callback is
\* registered before initialize is called
InitializeRace == hasCallback /\ InitializeWith(RaceRosters, RaceTracks)

\* SimulationEngine.setStateUpdateCallback
SetStateUpdateCallback ==
  /\ pc = "idle"
  /\ UNCHANGED <<agentVars, strategyVars>>
  /\ UNCHANGED <<retained, seed>>
  /\ hasCallback' = TRUE
  /\ emitted' = << >>
  /\ resetFrom' = NoReset
  /\ UNCHANGED <<config, vehicles, track, weather, speedMultiplier, isRunning,
                 isPaused, elapsedTime, currentLap, sinceUpdate, accumulatedTime,
                 animationFrameId, rafQueue, pc, pendingUpdates, eventQueue, completed, frameTicks, frameBudget, tickCount,
                 draws, multiplierSet, pausedFor, halted>>

\* start() without its this.isPaused = false
StartKeepsPause ==
  /\ pc = "idle"
  /\ UNCHANGED <<agentVars, strategyVars>>
  /\ UNCHANGED <<retained, seed>>
  /\ IF ~isRunning /\ Len(vehicles) > 0
       THEN /\ Len(rafQueue) < MaxRaf
            /\ isRunning' = TRUE
            /\ isPaused' = isPaused
            /\ sinceUpdate' = 0
            /\ GameLoopEntry(TRUE, isPaused, 0)
            /\ completed' = FALSE
            /\ emitted' = << >>
            /\ resetFrom' = [NoReset EXCEPT !.pausedBefore = isPaused]
            /\ UNCHANGED <<config, vehicles, track, weather, speedMultiplier,
                           elapsedTime, currentLap, hasCallback, animationFrameId,
                           rafQueue, pendingUpdates, eventQueue,
                           tickCount, draws, multiplierSet, pausedFor>>
            /\ halted' = FALSE
       ELSE UNCHANGED vars

\* SimulationEngine.start
Start ==
  /\ pc = "idle"
  /\ UNCHANGED <<agentVars, strategyVars>>
  /\ UNCHANGED <<retained, seed>>
  /\ IF ~isRunning /\ Len(vehicles) > 0
       THEN /\ Len(rafQueue) < MaxRaf
            /\ isRunning' = TRUE
            /\ isPaused' = FALSE
            /\ sinceUpdate' = 0
            /\ GameLoopEntry(TRUE, FALSE, 0)
            /\ completed' = FALSE
            /\ emitted' = << >>
            /\ resetFrom' = [NoReset EXCEPT !.pausedBefore = isPaused]
            /\ UNCHANGED <<config, vehicles, track, weather, speedMultiplier,
                           elapsedTime, currentLap, hasCallback, animationFrameId,
                           rafQueue, pendingUpdates, eventQueue,
                           tickCount, draws, multiplierSet, pausedFor>>
            /\ halted' = FALSE
       ELSE UNCHANGED vars

\* SimulationEngine.pause
Pause ==
  /\ pc = "idle"
  /\ UNCHANGED <<agentVars, strategyVars>>
  /\ UNCHANGED <<retained, seed>>
  /\ isPaused' = TRUE
  /\ emitted' = << >>
  /\ resetFrom' = NoReset
  /\ UNCHANGED <<config, vehicles, track, weather, speedMultiplier, isRunning,
                 elapsedTime, currentLap, sinceUpdate, accumulatedTime, hasCallback,
                 animationFrameId, rafQueue, pc, pendingUpdates, eventQueue, completed, frameTicks, frameBudget, tickCount,
                 draws, multiplierSet, pausedFor, halted>>

\* resume() without its this.lastUpdateTime = performance.now(): gameLoop
\* then measures deltaTime from the last frame before the pause
ResumeKeepsClock ==
  /\ pc = "idle"
  /\ UNCHANGED <<agentVars, strategyVars>>
  /\ UNCHANGED <<retained, seed>>
  /\ IF ~isRunning
       THEN UNCHANGED vars
       ELSE /\ Len(rafQueue) < MaxRaf
            /\ isPaused' = FALSE
            /\ sinceUpdate' = 0
            /\ GameLoopEntry(isRunning, FALSE, sinceUpdate)
            /\ emitted' = << >>
            /\ resetFrom' = NoReset
            /\ pausedFor' = IF isPaused THEN sinceUpdate ELSE 0
            /\ UNCHANGED <<config, vehicles, track, weather, speedMultiplier,
                           isRunning, elapsedTime, currentLap, hasCallback,
                           animationFrameId, rafQueue, pendingUpdates, eventQueue,
                           completed, tickCount, draws, multiplierSet, halted>>

\* SimulationEngine.resume
Resume ==
  /\ pc = "idle"
  /\ UNCHANGED <<agentVars, strategyVars>>
  /\ UNCHANGED <<retained, seed>>
  /\ IF ~isRunning
       THEN UNCHANGED vars
       ELSE /\ Len(rafQueue) < MaxRaf
            /\ isPaused' = FALSE
            /\ sinceUpdate' = 0
            /\ GameLoopEntry(isRunning, FALSE, 0)
            /\ emitted' = << >>
            /\ resetFrom' = NoReset
            /\ pausedFor' = IF isPaused THEN sinceUpdate ELSE 0
            /\ UNCHANGED <<config, vehicles, track, weather, speedMultiplier,
                           isRunning, elapsedTime, currentLap, hasCallback,
                           animationFrameId, rafQueue, pendingUpdates, eventQueue,
                           completed, tickCount, draws, multiplierSet, halted>>

\* SimulationEngine.stop
Stop ==
  /\ pc = "idle"
  /\ UNCHANGED <<agentVars, strategyVars>>
  /\ UNCHANGED <<retained, seed>>
  /\ isRunning' = FALSE
  /\ isPaused' = FALSE
  /\ rafQueue' = IF animationFrameId # 0
                   THEN cancelAnimationFrame(rafQueue, animationFrameId) ELSE rafQueue
  /\ animationFrameId' = 0
  /\ emitted' = << >>
  /\ resetFrom' = NoReset
  /\ UNCHANGED <<config, vehicles, track, weather, speedMultiplier, elapsedTime,
                 currentLap, sinceUpdate, accumulatedTime, hasCallback, pc,
                 pendingUpdates, eventQueue, completed, frameTicks,
                 frameBudget, tickCount, draws, multiplierSet, pausedFor>>
  /\ halted' = TRUE

\* the vehicle reset without its vehicle.tireWear = 0
ResetVehicleKeepsWear(v) ==
  [v EXCEPT !.speed = 0, !.acceleration = 0,
            !.energyModel.currentLevel = v.energyModel.capacity,
            !.isInPit = FALSE, !.pitStopTime = DoubleZero, !.overtakes = 0,
            !.positionsLost = 0, !.hazardsTriggered = 0,
            !.lapTimes = << >>, !.currentTime = 0]

\* the vehicle fields reset() re-zeroes after positionVehiclesAtStart
ResetVehicle(v) ==
  [v EXCEPT !.speed = 0, !.acceleration = 0, !.tireWear = 0,
            !.energyModel.currentLevel = v.energyModel.capacity,
            !.isInPit = FALSE, !.pitStopTime = DoubleZero, !.overtakes = 0,
            !.positionsLost = 0, !.hazardsTriggered = 0,
            !.lapTimes = << >>, !.currentTime = 0]

\* SimulationEngine.reset
Reset ==
  /\ pc = "idle"
  /\ UNCHANGED <<agentVars, strategyVars>>
  /\ isRunning' = FALSE
  /\ isPaused' = FALSE
  /\ rafQueue' = IF animationFrameId # 0
                   THEN cancelAnimationFrame(rafQueue, animationFrameId) ELSE rafQueue
  /\ animationFrameId' = 0
  /\ elapsedTime' = 0
  /\ currentLap' = 0
  /\ accumulatedTime' = 0
  /\ eventQueue' = << >>
  /\ vehicles' = LET placed == positionVehiclesAtStart(vehicles, track)
                 IN [i \in Indices(placed) |-> ResetVehicle(placed[i])]
  /\ weather' = InitialWeather
  /\ retained' = [k \in Indices(retained) |-> ReplaceWeather(retained[k], InitialWeather)]
  /\ seed' = [seed EXCEPT !.start = vehicles']
  /\ EmitStateUpdate(1, FALSE, FALSE, 0, vehicles', InitialWeather, 0, << >>)
  /\ resetFrom' =
       [reset |-> TRUE, running |-> isRunning,
        moved |-> \E i \in Indices(vehicles) : vehicles[i].distance > 0,
        worn |-> \E i \in Indices(vehicles) : vehicles[i].tireWear > 0,
        pitting |-> \E i \in Indices(vehicles) : vehicles[i].isInPit,
        weather |-> weather # InitialWeather,
        queued |-> eventQueue # << >>,
        reseeded |-> FALSE,
        pausedBefore |-> FALSE]
  /\ completed' = FALSE
  /\ tickCount' = 0
  /\ UNCHANGED <<config, track, speedMultiplier, sinceUpdate, hasCallback, pc,
                 pendingUpdates, frameTicks, frameBudget, draws, multiplierSet,
                 pausedFor>>
  /\ halted' = TRUE

\* SimulationEngine.setSpeedMultiplier
SetSpeedMultiplier ==
  /\ pc = "idle"
  /\ UNCHANGED <<agentVars, strategyVars>>
  /\ UNCHANGED <<retained, seed>>
  /\ \E multiplier \in MultiplierInputs :
       speedMultiplier' = Max(1, Min(100, multiplier))
  /\ multiplierSet' = TRUE
  /\ emitted' = << >>
  /\ resetFrom' = NoReset
  /\ UNCHANGED <<config, vehicles, track, weather, isRunning, isPaused,
                 elapsedTime, currentLap, sinceUpdate, accumulatedTime, hasCallback,
                 animationFrameId, rafQueue, pc, pendingUpdates, eventQueue, completed, frameTicks, frameBudget, tickCount,
                 draws, pausedFor, halted>>

\* the browser runs the oldest pending animation-frame callback: gameLoop;
\* the frame is run only if its ticks stay within maxTicks
AnimationFrameWithin(maxTicks) ==
  /\ pc = "idle"
  /\ UNCHANGED <<agentVars, strategyVars>>
  /\ UNCHANGED <<retained, seed>>
  /\ rafQueue # << >>
  /\ (isRunning /\ ~isPaused) =>
       tickCount + (accumulatedTime + sinceUpdate * config.speedMultiplier)
                     \div config.fixedTimestep <= maxTicks
  /\ rafQueue' = Tail(rafQueue)
  /\ sinceUpdate' = IF isRunning /\ ~isPaused THEN 0 ELSE sinceUpdate
  /\ GameLoopEntry(isRunning, isPaused, sinceUpdate)
  /\ emitted' = << >>
  /\ resetFrom' = NoReset
  /\ UNCHANGED <<config, vehicles, track, weather, speedMultiplier, isRunning,
                 isPaused, elapsedTime, currentLap, hasCallback, animationFrameId,
                 pendingUpdates, eventQueue, completed, tickCount,
                 draws, multiplierSet, pausedFor, halted>>

AnimationFrame == AnimationFrameWithin(MaxTicks)

\* SimulationEngine.tick(fixedTimestep), one iteration of the while loop; the
\* random draws inject at most limit events, of the kinds given; the strategy
\* engines of the vehicles of one of Failing reject, the ones of the vehicles
\* of Remote ask a remote provider
TickUnder(kinds, limit, Failing, Remote) ==
  /\ pc = "loop"
  /\ UNCHANGED <<agentVars, strategyVars>>
  /\ WholeTimestepLeft
  /\ accumulatedTime' = accumulatedTime - config.fixedTimestep
  /\ frameTicks' = frameTicks + 1
  /\ pausedFor' = 0
  /\ resetFrom' = NoReset
  /\ IF Len(vehicles) = 0
       THEN /\ emitted' = << >>
            /\ UNCHANGED <<vehicles, track, weather, isRunning, isPaused,
                           elapsedTime, animationFrameId, rafQueue, pendingUpdates,
                           eventQueue, completed, tickCount, draws, halted,
                           retained>>
       ELSE \E S \in Draws(Candidates(vehicles, track, kinds), limit), failing \in Failing :
              LET c == Candidates(vehicles, track, kinds)
                  elapsed == elapsedTime + config.fixedTimestep
                  processed == ProcessEvents([vehicles |-> vehicles, track |-> track],
                                             eventQueue)
                  w == updateWeather(weather, c, S)
                  updated == UpdateEach(1, [vehicles |-> processed.vehicles,
                                            track |-> processed.track,
                                            pending |-> pendingUpdates,
                                            failing |-> failing,
                                            remote |-> Remote],
                                        w, currentLap, config)
                  over == raceIsOver(updated.vehicles, config)
                  running == IF over THEN FALSE ELSE isRunning
                  paused == IF over THEN FALSE ELSE isPaused
              IN /\ elapsedTime' = elapsed
                 /\ tickCount' = tickCount + 1
                 /\ draws' = draws + Cardinality(S)
                 /\ weather' = w
                 /\ retained' = IF \E a \in S : c[a].slot = <<"weather">>
                                  THEN [k \in Indices(retained) |->
                                          ReplaceWeather(retained[k], w)]
                                  ELSE retained
                 /\ eventQueue' = injectRandomEvents(c, S, 1)
                 /\ vehicles' = updated.vehicles
                 /\ track' = updated.track
                 /\ pendingUpdates' = updated.pending
                 /\ isRunning' = running
                 /\ isPaused' = paused
                 /\ rafQueue' = IF over /\ animationFrameId # 0
                                  THEN cancelAnimationFrame(rafQueue, animationFrameId)
                                  ELSE rafQueue
                 /\ animationFrameId' = IF over THEN 0 ELSE animationFrameId
                 /\ completed' = (completed \/ over)
                 /\ halted' = (halted \/ over)
                 /\ EmitStateUpdate(IF over THEN 2 ELSE 1, running, paused, elapsed,
                                    updated.vehicles, w, currentLap,
                                    injectRandomEvents(c, S, 1))
  /\ UNCHANGED <<config, speedMultiplier, currentLap, sinceUpdate, hasCallback, pc,
                 frameBudget, multiplierSet, seed>>

\* a tick in which every strategy engine is local and resolves
TickWith(kinds, limit) == TickUnder(kinds, limit, { {} }, {})

EventKinds == {"weather", "battery_low", "breakdown", "obstacle", "collision"}

Tick == TickWith(EventKinds, MaxDraws - draws)

\* a tick in which no draw falls under its probability threshold
QuietTick == TickWith({}, 0)

\* the while loop of gameLoop is left: the next callback is requested and the
\* suspended updateVehicle calls whose decision is settled run at the
\* microtask checkpoint; the ones that wait for a remote provider stay
\* suspended
LoopExit ==
  /\ pc = "loop"
  /\ UNCHANGED <<agentVars, strategyVars>>
  /\ UNCHANGED <<retained, seed>>
  /\ ~WholeTimestepLeft
  /\ LET id == FreshId(rafQueue, animationFrameId)
         st == RunPending([vehicles |-> vehicles, track |-> track,
                           eventQueue |-> eventQueue],
                          SelectSeq(pendingUpdates, LAMBDA u : ~u.remote),
                          weather, elapsedTime)
     IN /\ animationFrameId' = id
        /\ rafQueue' = Append(rafQueue, id)
        /\ vehicles' = st.vehicles
        /\ track' = st.track
        /\ eventQueue' = st.eventQueue
  /\ pendingUpdates' = SelectSeq(pendingUpdates, LAMBDA u : u.remote)
  /\ pc' = "idle"
  /\ frameTicks' = 0
  /\ frameBudget' = 0
  /\ emitted' = << >>
  /\ resetFrom' = NoReset
  /\ pausedFor' = 0
  /\ UNCHANGED <<config, weather, speedMultiplier, isRunning, isPaused,
                 elapsedTime, currentLap, sinceUpdate, accumulatedTime, hasCallback,
                 completed, tickCount, draws, multiplierSet, halted>>

Next ==
  \/ Advance
  \/ Initialize
  \/ SetStateUpdateCallback
  \/ Start
  \/ Pause
  \/ Resume
  \/ Stop
  \/ Reset
  \/ SetSpeedMultiplier
  \/ AnimationFrame
  \/ QuietTick
  \/ LoopExit

Spec == Init /\ [][Next]_vars

\* the race under random events: the engine is initialized, started, run frame
\* by frame and reset, and the draws of each tick may inject events
NextRace ==
  \/ Advance
  \/ InitializeRace
  \/ SetStateUpdateCallback
  \/ Start
  \/ Reset
  \/ AnimationFrame
  \/ Tick
  \/ LoopExit

InitRace == Init /\ config = RaceConfig

SpecRace == InitRace /\ [][NextRace]_vars

\* the consumer keeps the snapshot its callback was last handed; the weather
\* field of that snapshot is the engine's weather object
Retain ==
  /\ emitted # << >>
  /\ retained = << >>
  /\ retained' = << [was |-> emitted[Len(emitted)], now |-> emitted[Len(emitted)],
                     sharesWeather |-> TRUE] >>
  /\ UNCHANGED <<engineVars, agentVars, strategyVars>>
  /\ UNCHANGED <<emitted, completed, frameTicks, frameBudget, tickCount, draws,
                 multiplierSet, pausedFor, halted, resetFrom, seed>>

\* the display of SpecRetain refreshes once per second, and its frames run at
\* most MaxRetainTicks ticks between resets
AnimationFrameRetain == sinceUpdate = 1 /\ AnimationFrameWithin(MaxRetainTicks)

\* a tick whose draws may change the weather
WeatherTick == TickWith({"weather"}, MaxDraws - draws)

\* the race under changing weather, watched by a consumer that keeps a snapshot
NextRetain ==
  \/ Advance
  \/ InitializeRace
  \/ SetStateUpdateCallback
  \/ Start
  \/ Reset
  \/ AnimationFrameRetain
  \/ WeatherTick
  \/ LoopExit
  \/ Retain

SpecRetain == InitRace /\ [][NextRetain]_vars

\* a long race of one slow vehicle on a one-segment track on which the only
\* random events are obstacles: the configuration, roster and track of SpecWear
WearConfig == [fixedTimestep |-> FixedTimestep, speedMultiplier |-> 10, totalLaps |-> 2]
WearRosters == { << VehicleConfig(1, 1, 100) >> }
WearTracks == { << Segment(0) >> }

InitWear == InitWith({WearConfig})

\* the race of SpecWear is initialized once
InitializeWear == vehicles = << >> /\ InitializeWith(WearRosters, WearTracks)

\* the display of SpecWear refreshes once per second
AnimationFrameWear == sinceUpdate = 1 /\ AnimationFrameWithin(MaxWearTicks)

\* a tick whose draws may make one obstacle appear
ObstacleTick == TickWith({"obstacle"}, 1)

NextWear ==
  \/ Advance
  \/ InitializeWear
  \/ Start
  \/ AnimationFrameWear
  \/ ObstacleTick
  \/ LoopExit

SpecWear == InitWear /\ [][NextWear]_vars

\* the energy models handed to initialize: the one of the application's race
\* setup (capacity 100, currentLevel 100, that is 100 times the normalized
\* full level) and a nearly empty battery of capacity 2.0
EnergyRosters ==
  { << [VehicleConfig(1, 20, 100) EXCEPT
          !.energyModel.capacity = 100 * EnergyScale,
          !.energyModel.currentLevel = 100 * EnergyScale] >>,
    << [VehicleConfig(1, 20, 10) EXCEPT !.energyModel.capacity = 2 * EnergyScale] >> }
EnergyTracks == { << Segment(0), Segment(1) >> }

InitializeEnergy == InitializeWith(EnergyRosters, EnergyTracks)

\* races of one vehicle whose energy model is one of EnergyRosters
NextEnergy ==
  \/ Advance
  \/ InitializeEnergy
  \/ Start
  \/ Reset
  \/ AnimationFrame
  \/ QuietTick
  \/ LoopExit

SpecEnergy == Init /\ [][NextEnergy]_vars

\* a roster under which the rule-based engine activates the boost: both
\* vehicles carry the energy model of the application's race setup (level 100,
\* so that the risk tolerance 0.5 * level is clamped to 1); the first vehicle
\* brakes by at most one speed unit per fixed timestep, the second is faster
\* and gets ahead
BoostRosters ==
  { << [VehicleConfig(1, 20, 100) EXCEPT
          !.brakingProfile.deceleration = 1,
          !.energyModel.capacity = 100 * EnergyScale,
          !.energyModel.currentLevel = 100 * EnergyScale],
       [VehicleConfig(2, 25, 100) EXCEPT
          !.accelerationProfile.acceleration = 25,
          !.energyModel.capacity = 100 * EnergyScale,
          !.energyModel.currentLevel = 100 * EnergyScale] >> }

InitializeBoost == InitializeWith(BoostRosters, RaceTracks)

\* races of the two vehicles of BoostRosters
NextBoost ==
  \/ Advance
  \/ InitializeBoost
  \/ Start
  \/ AnimationFrame
  \/ QuietTick
  \/ LoopExit

SpecBoost == Init /\ [][NextBoost]_vars

(* =========================== races with pit stops ===================== *)
\* fixed timesteps of 1 s, 2 s and 0.3 s; the last is run at half speed, so
\* that a frame runs one or two ticks
PitConfigs ==
  { [fixedTimestep |-> FixedTimestep, speedMultiplier |-> 20, totalLaps |-> 4],
    [fixedTimestep |-> 2 * FixedTimestep, speedMultiplier |-> 20, totalLaps |-> 4],
    [fixedTimestep |-> 3, speedMultiplier |-> 5, totalLaps |-> 4] }

\* the first vehicle of the roster starts with an energy level of 0.10, below
\* the 0.15 under which the heuristic policy pits at once
PitRosters == { << VehicleConfig(1, 10, 10), VehicleConfig(2, 10, 100) >> }

InitPit == InitWith(PitConfigs)

InitializePit == InitializeWith(PitRosters, RaceTracks)

\* the display of SpecPit refreshes once per second, and its frames run at
\* most MaxPitTicks ticks between resets
AnimationFramePit == sinceUpdate = 1 /\ AnimationFrameWithin(MaxPitTicks)

\* races in which the first vehicle pits, under random events
NextPit ==
  \/ Advance
  \/ InitializePit
  \/ Start
  \/ Reset
  \/ AnimationFramePit
  \/ Tick
  \/ LoopExit

SpecPit == InitPit /\ [][NextPit]_vars

(* ================== races with failing strategy engines =============== *)
\* a tick in which the strategy engines of any of the vehicles may reject
FaultyTick == TickUnder({}, 0, SUBSET Indices(vehicles), {})

\* races in which makeDecision of a vehicle's strategy engine may reject
NextFault ==
  \/ Advance
  \/ InitializeRace
  \/ SetStateUpdateCallback
  \/ Start
  \/ Reset
  \/ AnimationFrame
  \/ FaultyTick
  \/ LoopExit

SpecFault == InitRace /\ [][NextFault]_vars

(* ================= races with a remote strategy engine ================ *)
\* the vehicles whose agent brings an LLMStrategyEngine
RemoteVehicles == {1}

\* a tick in which the first vehicle's strategy engine asks a remote
\* provider; at most MaxInFlight of its requests are outstanding
RemoteTick ==
  /\ Cardinality({j \in Indices(pendingUpdates) : pendingUpdates[j].remote}) < MaxInFlight
  /\ TickUnder({}, 0, { {} }, RemoteVehicles)

\* the roster is set up once, so that a suspended updateVehicle holds a
\* vehicle of the roster
InitializeRemote == vehicles = << >> /\ InitializeWith(RaceRosters, RaceTracks)

\* the provider's answer arrives while no loop iteration runs: makeDecision
\* resolves and the updateVehicle call that awaited it runs to its end. It
\* tests neither isRunning nor isPaused
DecisionResolves ==
  /\ pc = "idle"
  /\ UNCHANGED <<agentVars, strategyVars>>
  /\ UNCHANGED <<retained, seed>>
  /\ \E j \in Indices(pendingUpdates) :
       LET st == ResumeUpdate([vehicles |-> vehicles, track |-> track,
                               eventQueue |-> eventQueue],
                              pendingUpdates[j], weather, elapsedTime)
       IN /\ vehicles' = st.vehicles
          /\ track' = st.track
          /\ eventQueue' = st.eventQueue
          /\ pendingUpdates' = [k \in 1..(Len(pendingUpdates) - 1) |->
                                  IF k < j THEN pendingUpdates[k]
                                           ELSE pendingUpdates[k + 1]]
  /\ emitted' = << >>
  /\ resetFrom' = NoReset
  /\ UNCHANGED <<config, weather, speedMultiplier, isRunning, isPaused,
                 elapsedTime, currentLap, sinceUpdate, accumulatedTime, hasCallback,
                 animationFrameId, rafQueue, pc, completed, frameTicks,
                 frameBudget, tickCount, draws, multiplierSet, pausedFor, halted>>

NextRemote ==
  \/ Advance
  \/ InitializeRemote
  \/ Start
  \/ Pause
  \/ Resume
  \/ Stop
  \/ Reset
  \/ AnimationFrame
  \/ RemoteTick
  \/ LoopExit
  \/ DecisionResolves

SpecRemote == InitRace /\ [][NextRemote]_vars

(* ========================== Agent operations ========================== *)
AgentKinds == {"base", "rule", "llm"}

\* the contexts handed to makeDecision differ in context.vehicle.tireWear
\* (percent)
ContextTireWear == {50, 95}

\* what one makeDecision leaves behind: the history, the cache and its
\* freshness, how the promise settled, the number of policy invocations and
\* whether one of them threw
Settled(history, cache, fresh, ret, n, failed) ==
  [history |-> history, cache |-> cache, fresh |-> fresh, returned |-> ret,
   policyCalls |-> n, policyFailed |-> failed]

\* BaseAgent.makeDecision without its test of the active flag
BaseMakeDecisionIgnoresFlag(o) ==
  IF o.threw
    THEN Settled(decisionHistory, strategyCache, cacheFresh,
                 Resolved(getDefaultDecision), 1, TRUE)
  ELSE Settled(addToHistory(decisionHistory, o.decision), strategyCache, cacheFresh,
               Resolved(validateDecision(o.decision)), 1, FALSE)

\* BaseAgent.makeDecision; o is how strategyEngine.makeDecision settles
BaseMakeDecision(o) ==
  IF ~isActive
    THEN Settled(decisionHistory, strategyCache, cacheFresh,
                 Resolved(getDefaultDecision), 0, FALSE)
  ELSE IF o.threw
    THEN Settled(decisionHistory, strategyCache, cacheFresh,
                 Resolved(getDefaultDecision), 1, TRUE)
  ELSE Settled(addToHistory(decisionHistory, o.decision), strategyCache, cacheFresh,
               Resolved(validateDecision(o.decision)), 1, FALSE)

\* RuleBasedAgent.makeDecision
RuleMakeDecision(o, tireWear, overtakeFails, defenseFails) ==
  IF ~isActive
    THEN Settled(decisionHistory, strategyCache, cacheFresh,
                 Resolved(getDefaultDecision), 0, FALSE)
  ELSE IF o.threw
    THEN Settled(decisionHistory, strategyCache, cacheFresh,
                 Resolved(getDefaultDecision), 1, TRUE)
  ELSE Settled(decisionHistory, strategyCache, cacheFresh,
               Resolved(applyAgentTraits(traits, o.decision, tireWear,
                                         overtakeFails, defenseFails)),
               1, FALSE)

\* LLMAgent.makeDecision; trigger is shouldUpdateStrategy(context), u how the
\* policy call of updateStrategy settles, o how the policy call of
\* makeDecision settles and f how fallbackStrategy.makeDecision settles
LLMMakeDecision(trigger, u, o, f) ==
  IF ~isActive
    THEN Settled(decisionHistory, strategyCache, cacheFresh,
                 Resolved(getDefaultDecision), 0, FALSE)
  ELSE
    LET updated == trigger /\ ~u.threw
        cache == IF updated THEN << u.decision >> ELSE strategyCache
        fresh == IF updated THEN TRUE ELSE cacheFresh
        n == IF trigger THEN 1 ELSE 0
        failed == trigger /\ u.threw
    IN IF cache # << >> /\ fresh
         THEN Settled(decisionHistory, cache, fresh, Resolved(cache[1]), n, failed)
       ELSE IF ~o.threw
         THEN Settled(decisionHistory, << o.decision >>, TRUE,
                      Resolved(o.decision), n + 1, failed)
       ELSE IF cache # << >>
         THEN Settled(decisionHistory, cache, fresh, Resolved(cache[1]), n + 1, TRUE)
       ELSE IF f.threw
         THEN Settled(decisionHistory, cache, fresh, Rejected, n + 1, TRUE)
       ELSE Settled(decisionHistory, cache, fresh, Resolved(f.decision), n + 1, TRUE)

\* new RuleBasedAgent(config), new LLMAgent(config) or an Agent that inherits
\* BaseAgent.makeDecision
CreateAgent ==
  /\ agentKind = "none"
  /\ \E k \in AgentKinds :
       /\ agentKind' = k
       /\ traits' \in (IF k = "rule" THEN TraitSets ELSE {traits})
  /\ isActive' = TRUE
  /\ decisionHistory' = << >>
  /\ strategyCache' = << >>
  /\ cacheFresh' = FALSE
  /\ UNCHANGED <<returned, policyCalls, policyFailed, calls, successes, triggerFired>>
  /\ UNCHANGED <<engineVars, historyVars, strategyVars>>

\* BaseAgent.setActive
SetActive ==
  /\ agentKind # "none"
  /\ isActive' \in BOOLEAN
  /\ isActive' # isActive
  /\ returned' = NoReturn
  /\ policyCalls' = 0
  /\ policyFailed' = FALSE
  /\ triggerFired' = FALSE
  /\ UNCHANGED <<agentKind, traits, decisionHistory, strategyCache, cacheFresh,
                 calls, successes>>
  /\ UNCHANGED <<engineVars, historyVars, strategyVars>>

\* BaseAgent.clearHistory
ClearHistory ==
  /\ agentKind # "none"
  /\ decisionHistory # << >> \/ successes # 0
  /\ decisionHistory' = << >>
  /\ successes' = 0
  /\ returned' = NoReturn
  /\ policyCalls' = 0
  /\ policyFailed' = FALSE
  /\ triggerFired' = FALSE
  /\ UNCHANGED <<agentKind, traits, isActive, strategyCache, cacheFresh, calls>>
  /\ UNCHANGED <<engineVars, historyVars, strategyVars>>

\* the second for which cacheStrategy keeps the cache valid is over
CacheExpires ==
  /\ agentKind = "llm"
  /\ cacheFresh
  /\ cacheFresh' = FALSE
  /\ returned' = NoReturn
  /\ policyCalls' = 0
  /\ policyFailed' = FALSE
  /\ triggerFired' = FALSE
  /\ UNCHANGED <<agentKind, traits, isActive, decisionHistory, strategyCache,
                 calls, successes>>
  /\ UNCHANGED <<engineVars, historyVars, strategyVars>>

\* agent.makeDecision(context), from the call to the settling of its promise
MakeDecision ==
  /\ agentKind # "none"
  /\ calls < MaxCalls
  /\ \E o \in PolicyOutcomes, u \in PolicyOutcomes, f \in PolicyOutcomes,
        trigger \in BOOLEAN, tireWear \in ContextTireWear,
        overtakeFails \in BOOLEAN, defenseFails \in BOOLEAN :
       LET r == CASE agentKind = "base" -> BaseMakeDecision(o)
                  [] agentKind = "rule" ->
                       RuleMakeDecision(o, tireWear, overtakeFails, defenseFails)
                  [] OTHER -> LLMMakeDecision(trigger, u, o, f)
       IN /\ decisionHistory' = r.history
          /\ strategyCache' = r.cache
          /\ cacheFresh' = r.fresh
          /\ returned' = r.returned
          /\ policyCalls' = r.policyCalls
          /\ policyFailed' = r.policyFailed
          /\ triggerFired' = (agentKind = "llm" /\ isActive /\ trigger)
          /\ successes' = IF isActive /\ ~r.policyFailed /\ r.returned.outcome = "resolved"
                            THEN successes + 1 ELSE successes
  /\ calls' = calls + 1
  /\ UNCHANGED <<agentKind, traits, isActive>>
  /\ UNCHANGED <<engineVars, historyVars, strategyVars>>

\* the life of one Agent
NextAgent ==
  \/ CreateAgent
  \/ SetActive
  \/ ClearHistory
  \/ CacheExpires
  \/ MakeDecision

SpecAgent == InitRace /\ [][NextAgent]_vars

(* ================== strategy engines: operations ====================== *)
\* a strategy engine is about to be handed one of Contexts
InitStrategy ==
  /\ InitEngine({RaceConfig})
  /\ context \in Contexts
  /\ decision = << >>
  /\ request = NoRequest

\* new RuleBasedStrategyEngine().makeDecision(context)
Decide ==
  /\ context.index # 0
  /\ decision = << >>
  /\ decision' = << RuleBasedDecision(context.vehicles, context.index, context.segment,
                                      context.weather, context.currentLap,
                                      context.totalLaps) >>
  /\ UNCHANGED <<context, request>>
  /\ UNCHANGED <<engineVars, historyVars, agentVars>>

\* LLMStrategyEngine.makeDecision(context) up to its await of fetch; the
\* provider is one that answers or one that never does
SendRequest ==
  /\ context.index # 0
  /\ request.state = "idle"
  /\ \E p \in {"answers", "silent"} :
       request' = [NoRequest EXCEPT !.state = "pending", !.provider = p]
  /\ UNCHANGED <<context, decision>>
  /\ UNCHANGED <<engineVars, historyVars, agentVars>>

\* the fetch settles and LLMStrategyEngine.makeDecision runs to its return
ProviderAnswers ==
  /\ request.state = "pending"
  /\ request.provider = "answers"
  /\ \E a \in Answers :
       request' = [request EXCEPT !.state = "resolved", !.answer = a.kind,
                                  !.body = IF a.kind = "ok" THEN << a.body >> ELSE << >>,
                                  !.result = << LLMDecision(a, context) >>]
  /\ UNCHANGED <<context, decision>>
  /\ UNCHANGED <<engineVars, historyVars, agentVars>>

\* one context handed to the rule-based and to the LLM strategy engine
NextStrategy ==
  \/ Decide
  \/ SendRequest
  \/ ProviderAnswers

SpecStrategy == InitStrategy /\ [][NextStrategy]_vars

\* the event loop delivers the answer of a provider that answers
SpecStrategyFair == SpecStrategy /\ WF_vars(ProviderAnswers)

\* a vehicle that covers more than two segments in one fixed timestep
\* (45 distance units against segments of 20) next to one that covers one
FastRosters ==
  { << [VehicleConfig(1, 45, 100) EXCEPT !.accelerationProfile.acceleration = 45],
       VehicleConfig(2, 20, 100) >> }

InitializeFast == InitializeWith(FastRosters, RaceTracks)

\* races of the two vehicles of FastRosters
NextFast ==
  \/ Advance
  \/ InitializeFast
  \/ Start
  \/ Reset
  \/ AnimationFrame
  \/ QuietTick
  \/ LoopExit

SpecFast == Init /\ [][NextFast]_vars

(* =============================== claims =============================== *)
\* C1: from the tick in which checkRaceCompletion finds the race over until
\* the next reset, initialize or start, the status is 'finished': getState
\* reports it and so does every snapshot pushed to the callback
C1_FinishedReported ==
  completed => /\ getState.raceState = "finished"
               /\ \A k \in Indices(emitted) : emitted[k].raceState = "finished"

\* C2: once the completion is detected no further tick executes until
\* start(): the elapsed time does not advance while the race stays completed,
\* whatever the time buffer still holds in that frame
C2_NoTickAfterCompletion ==
  [][(completed /\ completed') => elapsedTime' = elapsedTime]_vars

\* the status of the specified state machine stopped -> running <-> paused ->
\* finished: a completed race is finished until reset, initialize or start
SpecStatus == IF completed THEN "finished" ELSE RaceStatus(isRunning, isPaused)

\* C3: a step of start() changes the state only from status stopped with a
\* non-empty roster, and then the engine runs and the loop has begun; from
\* running, paused, finished or with an empty roster it leaves status, elapsed
\* time, time buffer and vehicles unchanged and schedules no loop iteration
C3_StartOnlyFromStopped ==
  [][Start =>
       IF SpecStatus = "stopped" /\ Len(vehicles) > 0
         THEN isRunning' /\ ~isPaused' /\ pc' = "loop"
         ELSE UNCHANGED <<isRunning, isPaused, elapsedTime, accumulatedTime,
                          vehicles, rafQueue, pc>>]_vars

\* C4: while the roster or the track given to initialize() is empty the
\* engine stays stopped and no tick executes
C4_ConfigurationFaults ==
  (Len(vehicles) = 0 \/ Len(track) = 0) => (~isRunning /\ tickCount = 0)

\* C5: while the engine is running and paused, and in the resume() that ends
\* the pause, the elapsed time and the time buffer keep the values they had
\* at pause(): no tick executes, and resume() restarts the measurement of
\* wall time, so that the time spent paused is never added to the buffer
C5_PauseResumeKeepsTime ==
  [][(isRunning /\ isPaused /\ isRunning') =>
       /\ elapsedTime' = elapsedTime
       /\ accumulatedTime' = accumulatedTime
       /\ (~isPaused' => sinceUpdate' = 0)]_vars

\* C5 witness: a resume() has just ended a pause that lasted wall time, in a
\* race that had ticked and whose buffer held a fraction of a timestep
C5_Witness ==
  pausedFor > 0 /\ isRunning /\ ~isPaused /\ elapsedTime > 0 /\ accumulatedTime > 0

\* C6: after a call of stop() and until start() begins the loop again, the
\* status is stopped and no tick executes: the elapsed time never advances
C6_StopHalts ==
  [][halted' => /\ RaceStatus(isRunning', isPaused') = "stopped"
                /\ (halted => elapsedTime' <= elapsedTime)]_vars

\* C7: a step of reset() leaves the engine stopped with no loop iteration
\* pending under the stored id, elapsed time, time buffer and lap counter 0,
\* every vehicle on the start segment with speed, acceleration, tire wear,
\* distance, laps, pit flag and timer and counters zeroed and its energy at
\* capacity, the weather the configured initial weather, and exactly one
\* snapshot pushed to the registered callback
C7_ResetRestores ==
  [][Reset =>
       /\ ~isRunning' /\ ~isPaused'
       /\ animationFrameId' = 0
       /\ \A k \in Indices(rafQueue') : rafQueue'[k] # animationFrameId
       /\ elapsedTime' = 0 /\ accumulatedTime' = 0 /\ currentLap' = 0
       /\ Len(vehicles') = Len(vehicles)
       /\ \A i \in Indices(vehicles') :
            LET v == vehicles'[i]
            IN /\ v.currentSegment = 0 /\ v.distance = 0 /\ v.laps = 0
               /\ v.speed = 0 /\ v.acceleration = 0 /\ v.tireWear = 0
               /\ ~v.isInPit /\ v.pitStopTime = DoubleZero
               /\ v.overtakes = 0 /\ v.positionsLost = 0 /\ v.hazardsTriggered = 0
               /\ v.energyModel.currentLevel = v.energyModel.capacity
       /\ weather' = InitialWeather
       /\ Len(emitted') = IF hasCallback THEN 1 ELSE 0]_vars

\* C7 witness: reset() has just been called on a running race whose vehicles
\* had moved and one of which had worn tires, with a callback registered
C7_Witness ==
  /\ resetFrom.reset /\ resetFrom.running /\ resetFrom.moved /\ resetFrom.worn
  /\ Len(emitted) = 1

C9_MultiplierScalesWallTime ==
  [][/\ multiplierSet' => (speedMultiplier' >= 1 /\ speedMultiplier' <= 100)
     /\ (multiplierSet /\ AnimationFrame /\ pc' = "loop") =>
          accumulatedTime' = accumulatedTime + sinceUpdate * speedMultiplier]_vars

\* C10: in every reachable state the tire wear of every vehicle is within
\* [0, 1], and from one state to the next it never decreases except when it
\* is set to 0 (pit completion, reset)
C10_TireWearBounded ==
  [][/\ \A i \in Indices(vehicles') :
          vehicles'[i].tireWear >= 0 /\ vehicles'[i].tireWear <= WearScale
     /\ Len(vehicles') = Len(vehicles) =>
          \A i \in Indices(vehicles) :
            \/ vehicles'[i].tireWear >= vehicles[i].tireWear
            \/ vehicles'[i].tireWear = 0]_vars

\* C11: every vehicle's energy level is within [0,1] in every state, whatever
\* energy model initialize() was handed, also after the refill to capacity of
\* a completed pit stop and of reset()
C11_EnergyBounded ==
  \A i \in Indices(vehicles) :
    /\ vehicles[i].energyModel.currentLevel >= 0
    /\ vehicles[i].energyModel.currentLevel <= EnergyScale

\* C12: every vehicle's speed is within [0, maxSpeed] in every state, also
\* after a tick in which the decision activated the boost (x1.1) or attempted
\* an overtake (x1.05) before the physics integration
C12_SpeedBounded ==
  \A i \in Indices(vehicles) :
    vehicles[i].speed >= 0 /\ vehicles[i].speed <= vehicles[i].maxSpeed

\* the ranges and enumerations of a StrategyDecision
WithinRanges(d) ==
  /\ d.throttle.kind = "number" /\ d.throttle.val >= 0 /\ d.throttle.val <= 100
  /\ d.braking.kind = "number" /\ d.braking.val >= 0 /\ d.braking.val <= 100
  /\ d.steering.kind = "number" /\ d.steering.val >= -100 /\ d.steering.val <= 100
  /\ d.riskLevel.kind = "number" /\ d.riskLevel.val >= 0 /\ d.riskLevel.val <= 100
  /\ d.overtakingDecision \in {"none", "attempt", "defend"}
  /\ d.pitDecision \in {"none", "immediate", "next_lap"}
  /\ d.energyManagement \in {"aggressive", "balanced", "conservative"}

\* C13: whatever the policy hands back (out-of-range numbers, missing fields,
\* invalid enumeration strings), the decision with which makeDecision
\* resolves has throttle, braking and riskLevel in [0,1], steering in [-1,1]
\* and its three enumerations within their value sets
C13_DecisionWithinRanges ==
  returned.outcome = "resolved" => WithinRanges(returned.decision[1])

\* C14: a makeDecision on an Agent whose active flag is false resolves with
\* the fixed safe default (throttle 0.5, braking 0, steering 0, riskLevel 0.3,
\* no overtaking, no pit, no boost, balanced energy), invokes no policy and
\* leaves the decision history and the cache as they were
C14_InactiveReturnsDefault ==
  [][(calls' = calls + 1 /\ ~isActive) =>
       /\ returned' = Resolved(Decision(Num(50), Num(0), Num(0), Num(30),
                                        "none", "none", FALSE, "balanced"))
       /\ policyCalls' = 0
       /\ UNCHANGED <<decisionHistory, strategyCache, cacheFresh>>]_vars

\* C14 witness: an inactive Agent that holds earlier decisions in its history
\* or cache has just settled a makeDecision
C14_Witness ==
  /\ ~isActive /\ returned.outcome = "resolved" /\ calls >= 2
  /\ (decisionHistory # << >> \/ strategyCache # << >>)

\* C15: when the policy of an active Agent throws or rejects, makeDecision
\* resolves with the safe default and the decision history is unchanged
C15_PolicyFailureReturnsDefault ==
  [][(calls' = calls + 1 /\ isActive /\ policyFailed') =>
       /\ returned' = Resolved(getDefaultDecision)
       /\ decisionHistory' = decisionHistory]_vars

\* C16: a successful makeDecision of an active Agent appends one entry, the
\* validated decision it returns, to the history, evicting the oldest entry
\* past maxHistorySize, and totalDecisions is the smaller of maxHistorySize
\* and the number of successful decisions since the history was last cleared
C16_HistoryRecordsDecisions ==
  [][/\ (calls' = calls + 1 /\ isActive /\ ~policyFailed'
           /\ returned'.outcome = "resolved") =>
          /\ Len(decisionHistory') = Min(maxHistorySize, Len(decisionHistory) + 1)
          /\ decisionHistory'[Len(decisionHistory')] = returned'.decision[1]
     /\ totalDecisions(decisionHistory') = Min(maxHistorySize, successes')]_vars

\* C17: in every state each vehicle's currentSegment is an index of the
\* track array and its segmentProgress lies in [0,1), the staggered start
\* positions and the state right after a segment transition included
C17_SegmentWrap ==
  \A i \in Indices(vehicles) :
    /\ HasSegment(track, vehicles[i].currentSegment)
    /\ vehicles[i].segmentProgress >= 0
    /\ vehicles[i].segmentProgress < ProgressScale

\* C18: a vehicle's lap count is the number of times its segment index has
\* wrapped from the last segment to index 0 since it was last placed at the
\* start: with n segments, laps * n + currentSegment is the number of segment
\* transitions made, so one lap is counted per traversal of the whole
\* segment list and none otherwise
C18_LapPerTraversal ==
  \A i \in Indices(vehicles) :
    IF Len(track) = 0
      THEN vehicles[i].laps = 0
      ELSE vehicles[i].laps * Len(track) + vehicles[i].currentSegment
             = vehicles[i].transitions

\* C18 witness: on the track of two segments a vehicle has completed a lap
\* and gone on into the second segment
C18_Witness ==
  \E i \in Indices(vehicles) :
    /\ Len(track) = 2 /\ vehicles[i].laps >= 1 /\ vehicles[i].currentSegment = 1

\* C19: a lap-time sample is appended to lapTimes each time the lap count is
\* incremented: in every state the length of lapTimes is the vehicle's lap
\* count
C19_LapTimePerLap ==
  \A i \in Indices(vehicles) : Len(vehicles[i].lapTimes) = vehicles[i].laps

\* C20: when the completion check and the snapshot of a tick have run, and so
\* before the next tick starts, no per-vehicle work started by the tick is
\* outstanding: no updateVehicle call is left suspended at its await
C20_TickRunsToCompletion == pendingUpdates = << >>

\* C21: while a decision for a vehicle is in flight no step of the engine
\* mutates that vehicle, and at most one decision per vehicle is in flight:
\* no two suspended updateVehicle calls are for the same vehicle, and a step
\* that leaves the loop running changes no vehicle whose update is suspended
C21_NoMutationInFlight ==
  [][/\ \A a, b \in Indices(pendingUpdates') :
          a # b => pendingUpdates'[a].vehicle # pendingUpdates'[b].vehicle
     /\ pc' = "loop" =>
          \A a \in Indices(pendingUpdates) :
            vehicles'[pendingUpdates[a].vehicle] = vehicles[pendingUpdates[a].vehicle]]_vars

\* C22: every executed tick pushes exactly one snapshot to the registered
\* callback, and its vehicle summaries are the vehicle state that tick
\* produces: the state in which the tick's vehicle updates have been applied
C22_OneSnapshotPerTick ==
  [][(tickCount' = tickCount + 1 /\ hasCallback) =>
       /\ Len(emitted') = 1
       /\ \A k \in Indices(emitted') :
            emitted'[k].vehicles =
              LET produced == RunPending([vehicles |-> vehicles', track |-> track',
                                          eventQueue |-> eventQueue'],
                                         pendingUpdates', weather', elapsedTime')
              IN [i \in Indices(vehicles') |-> VehicleSnapshot(produced.vehicles[i])]]_vars

C24_Deterministic ==
  LET ref == ReferenceRun([vehicles |-> seed.start, track |-> seed.track,
                           eventQueue |-> << >>, elapsedTime |-> 0,
                           shown |-> seed.start],
                          config, weather, currentLap, tickCount)
  IN /\ \A k \in Indices(emitted) :
          /\ emitted[k].elapsedTime = ref.elapsedTime
          /\ emitted[k].vehicles =
               [i \in Indices(ref.shown) |-> VehicleSnapshot(ref.shown[i])]
     /\ pc = "idle" => vehicles = ref.vehicles

\* C25: an initialize() that follows a reset() and is handed the roster and
\* track of the initialize() before it leaves the vehicles exactly as the
\* first initialize() with these arguments left them: on the start segment
\* with speed, distance and laps zero and the energy level as configured; on
\* a track with a start segment vehicle i (counted from 0) has the
\* segment-progress offset i x 0.05
C25_ReseedIdempotent ==
  [][resetFrom'.reseeded =>
       /\ vehicles' = seed.first
       /\ Len(vehicles') = Len(seed.roster)
       /\ \A i \in Indices(vehicles') :
            /\ vehicles'[i].currentSegment = 0
            /\ vehicles'[i].speed = 0
            /\ vehicles'[i].distance = 0
            /\ vehicles'[i].laps = 0
            /\ vehicles'[i].tireWear = 0
            /\ vehicles'[i].energyModel.currentLevel
                 = seed.roster[i].energyModel.currentLevel
            /\ Len(track') > 0 => vehicles'[i].segmentProgress = i - 1]_vars

\* C25 witness: a race of two vehicles that had moved was reset and then
\* initialized again with the same roster and track
C25_Witness ==
  /\ resetFrom.reseeded /\ resetFrom.moved /\ vehicles = seed.start
  /\ Len(vehicles) = 2 /\ Len(track) > 0 /\ tickCount = 0

\* C26: for every tire wear, energy level, current lap and total laps the pit
\* decision of the heuristic policy is "immediate" if (tire wear > 0.85 and
\* the race is not within its final 2 laps) or energy < 0.15, otherwise
\* "next_lap" if the race is within its final 3 laps and tire wear > 0.6,
\* otherwise "none"
C26_PitNecessity ==
  \A k \in Indices(decision) :
    LET v == context.vehicles[context.index]
        worn == v.tireWear * 100 > 85 * WearScale
        low == v.energyModel.currentLevel * 100 < 15 * EnergyScale
    IN decision[k].pitDecision =
         IF (worn /\ context.currentLap < context.totalLaps - 2) \/ low THEN "immediate"
         ELSE IF /\ context.currentLap >= context.totalLaps - 3
                 /\ v.tireWear * 100 > 60 * WearScale THEN "next_lap"
         ELSE "none"

\* the overtake scenario: A runs 3 distance units ahead of B on a straight
\* segment and no car runs within 10 units behind B
OvertakeScenario ==
  /\ context.index = 2
  /\ LET sur == calculateSurroundings(context.vehicles, 2)
     IN /\ sur.ahead = 1
        /\ sur.distanceToNext = 3
        /\ sur.behind = 0 \/ sur.distanceToPrevious >= 10
  /\ context.segment.type = "straight"

C28_CachedBetweenTriggers ==
  [][(/\ calls' = calls + 1
      /\ agentKind = "llm"
      /\ isActive
      /\ strategyCache # << >>
      /\ ~triggerFired')
     => /\ policyCalls' = 0
        /\ returned' = Resolved(strategyCache[1])]_vars

\* C29: every call of LLMStrategyEngine.makeDecision eventually resolves
\* with a decision, also when the provider never answers
C29_EveryCallResolves == (request.state = "pending") ~> (request.state = "resolved")

\* C30: the decision built from a successful provider response has its
\* numeric fields clamped to their ranges, its enumerated fields outside
\* their valid set replaced by their defaults, and every unknown or missing
\* field set to its safe default: throttle 0.5, braking 0, steering 0,
\* riskLevel 0.3, overtaking none, pit none, no boost, balanced energy
C30_ResponseRevalidated ==
  (request.state = "resolved" /\ request.answer = "ok") =>
    LET body == request.body[1]
        safe == getDefaultDecision
        numeric(x, lo, hi, d) == IF x.kind = "number" THEN Clamp(lo, hi, x) ELSE d
        enumerated(x, valid, d) == IF x \in valid THEN x ELSE d
    IN request.result[1] =
         Decision(numeric(body.throttle, 0, 100, safe.throttle),
                  numeric(body.braking, 0, 100, safe.braking),
                  numeric(body.steering, -100, 100, safe.steering),
                  numeric(body.riskLevel, 0, 100, safe.riskLevel),
                  enumerated(body.overtakingDecision, {"none", "attempt", "defend"},
                             safe.overtakingDecision),
                  enumerated(body.pitDecision, {"none", "immediate", "next_lap"},
                             safe.pitDecision),
                  body.drsActivation,
                  enumerated(body.energyManagement,
                             {"aggressive", "balanced", "conservative"},
                             safe.energyManagement))

\* C31: when the decision of a vehicle fails in a tick, the vehicle is still
\* integrated in that tick with the safe-default decision, and every other
\* vehicle is updated as usual
C31_FaultIsolation ==
  [][(pc = "loop" /\ pc' = "idle") =>
       LET defaulted == [k \in Indices(pendingUpdates) |->
                           IF pendingUpdates[k].failed
                             THEN [pendingUpdates[k] EXCEPT !.failed = FALSE,
                                                            !.decision = SafeDefaultDecision]
                             ELSE pendingUpdates[k]]
       IN vehicles' = RunPending([vehicles |-> vehicles, track |-> track,
                                  eventQueue |-> eventQueue],
                                 defaulted, weather, elapsedTime).vehicles]_vars

\* C32: in every tick a pitting vehicle has its pit timer
\* decremented by the timestep; in the first tick in which the timer reaches
\* 0 or less the pit flag is cleared, the timer is set to 0, tire wear is set
\* to 0 and energy is refilled to capacity, and that is exactly the
\* ceil(3.0 / dt)-th tick the vehicle has spent in the pit
C32_PitStopExact ==
  [][tickCount' = tickCount + 1 =>
       \A i \in Indices(vehicles) :
         vehicles[i].isInPit =>
           LET dt == ToDouble(config.fixedTimestep)
               v == vehicles'[i]
           IN IF DoubleLeq(vehicles[i].pitStopTime, dt)
                THEN /\ ~v.isInPit
                     /\ v.pitStopTime = DoubleZero
                     /\ v.tireWear = 0
                     /\ v.energyModel.currentLevel = v.energyModel.capacity
                     /\ v.pitTicks = (PitStopDuration + config.fixedTimestep - 1)
                                       \div config.fixedTimestep
                ELSE /\ v.isInPit
                     /\ v.pitStopTime = DoubleMinus(vehicles[i].pitStopTime, dt)
                     /\ v.pitTicks = vehicles[i].pitTicks + 1]_vars

\* C33: while the loop is paused or stopped no vehicle changes: a decision
\* that was in flight when the loop was paused, stopped or reset is discarded
\* when it resolves, it is not applied to the vehicle
C33_InFlightDiscarded ==
  [][(pc = "idle" /\ (~isRunning \/ isPaused)
        /\ Len(pendingUpdates') < Len(pendingUpdates)) =>
       vehicles' = vehicles]_vars

\* C34: within one tick the decision context of every vehicle (the vehicles
\* ahead, behind and nearby, the distances, the weather, the obstacle
\* hazards) is computed from the state at the start of the tick: it reflects
\* no change the same tick made for a vehicle earlier in the roster
C34_ContextFromTickStart ==
  [][tickCount' = tickCount + 1 =>
       LET start == ProcessEvents([vehicles |-> vehicles, track |-> track],
                                  eventQueue)
       IN \A j \in (Len(pendingUpdates) + 1)..Len(pendingUpdates') :
            pendingUpdates'[j].context =
              BuildContext(start.vehicles, start.track,
                           pendingUpdates'[j].vehicle, weather')]_vars

\* obstacle markers on the track
Markers(tr) == Cardinality({n \in Indices(tr) : tr[n].obstacle # "none"})

\* obstacle penalties the roster has received
RECURSIVE Penalties(_)
Penalties(vs) ==
  IF vs = << >> THEN 0 ELSE Head(vs).penalties + Penalties(Tail(vs))

\* C35: obstacle markers are single-use: a step in which vehicles receive an
\* obstacle penalty removes one marker per penalty, so that a marker
\* penalizes at most one vehicle
C35_MarkerSingleUse ==
  [][Len(vehicles') = Len(vehicles) /\ Penalties(vehicles') > Penalties(vehicles) =>
       Penalties(vehicles') - Penalties(vehicles) = Markers(track) - Markers(track')]_vars

\* one of two vehicles that both ran over every segment of the track took
\* the penalty and the track holds no marker any more
C35_Witness ==
  /\ Len(vehicles) = 2
  /\ Markers(track) = 0
  /\ \E i \in Indices(vehicles) :
       /\ vehicles[i].penalties = 1
       /\ \A j \in Indices(vehicles) \ {i} :
            /\ vehicles[j].penalties = 0
            /\ vehicles[j].distance > 0
            /\ vehicles[j].currentSegment = vehicles[i].currentSegment
            /\ vehicles[j].transitions >= Len(track)
            /\ vehicles[i].transitions >= Len(track)

\* C36 as stated: the pause flag is set only while the race is running
C36_PausedOnlyWhileRunning == isPaused => isRunning

\* C36 amended: whenever the race goes from not running to running the pause
\* flag is cleared, so that a pause() issued while the race was stopped or
\* finished has no effect on a later start()
C36_StartClearsPause ==
  [][(~isRunning /\ isRunning') => ~isPaused']_vars

\* the race was started with the pause flag set and runs un-paused
C36_Witness == resetFrom.pausedBefore /\ isRunning /\ ~isPaused /\ pc = "loop"

\* C37: at most one loop iteration is scheduled at any time: whatever the
\* interleaving of start(), pause(), resume(), stop() and reset() with the
\* pending animation-frame callbacks, no more than one gameLoop callback is
\* live
C37_OneLoopScheduled ==
  Len(rafQueue) + (IF pc = "loop" THEN 1 ELSE 0) <= 1

\* the highest completed-lap count of the roster
RECURSIVE LeaderLaps(_)
LeaderLaps(vs) ==
  IF vs = << >> THEN 0 ELSE Max(Head(vs).laps, LeaderLaps(Tail(vs)))

\* C38: after every tick, once the vehicles' updates have run, the
\* orchestrator's current-lap counter equals the completed-lap count of the
\* lap leader
C38_CurrentLapIsLeaderLap ==
  (pc = "idle" /\ pendingUpdates = << >>) => currentLap = LeaderLaps(vehicles)

\* the rule-based policy has decided for a vehicle whose energy level and
\* tire wear lie in [0, 1]
DecidedInRange ==
  /\ context.index # 0
  /\ request = NoRequest
  /\ decision # << >>
  /\ context.vehicles[context.index].energyModel.currentLevel \in 0..EnergyScale
  /\ context.vehicles[context.index].tireWear \in 0..WearScale

\* C39: for every vehicle with energy level and tire wear in [0, 1] and every
\* weather the risk tolerance is at most 0.5, so that the rule-based policy
\* neither returns the overtaking intent 'attempt' nor activates the boost
C39_RiskToleranceAtMostHalf ==
  DecidedInRange =>
    /\ calculateRiskTolerance(context.vehicles[context.index], context.weather) <= 50
    /\ decision[1].riskLevel <= 50
    /\ decision[1].overtakingDecision # "attempt"
    /\ ~decision[1].drsActivation

\* a car with fresh tires and a full battery, 12.5 km/h faster than the car 3
\* units ahead of it on a straight in clear weather, decides at a risk
\* tolerance of exactly 0.5: no attempt, no boost
C39_Witness ==
  /\ DecidedInRange
  /\ context.vehicles[2].energyModel.currentLevel = EnergyScale
  /\ context.vehicles[2].tireWear = 0
  /\ context.weather = InitialWeather
  /\ context.segment.type = "straight" /\ context.segment.hazardLevel = 0
  /\ context.vehicles[2].speed > context.vehicles[1].speed
  /\ context.vehicles[1].position - context.vehicles[2].position = 3
  /\ decision[1].riskLevel = 50
  /\ decision[1].overtakingDecision = "none"
  /\ ~decision[1].drsActivation

\* where a vehicle is and how fast it moves
Motion(v) ==
  <<v.position, v.currentSegment, v.segmentProgress, v.distance, v.laps, v.speed>>

\* C40: a vehicle whose pit flag is set is not moved: from the step that sets
\* isInPit until the step that clears it no tick changes its position,
\* segment, segment progress, distance, laps or speed, also when several
\* ticks run in one loop iteration or an update of the vehicle was still
\* suspended when it entered the pit
C40_PittingVehicleNotMoved ==
  [][/\ \A i \in Indices(vehicles) :
          (i <= Len(vehicles') /\ vehicles[i].isInPit /\ vehicles'[i].isInPit) =>
             Motion(vehicles'[i]) = Motion(vehicles[i])
     /\ (pc = "loop" /\ pc' = "idle") =>
          LET settled == SelectSeq(pendingUpdates, LAMBDA u : ~u.remote)
          IN \A n \in 0..Len(settled), i \in Indices(vehicles) :
               LET mid == RunPending([vehicles |-> vehicles, track |-> track,
                                      eventQueue |-> eventQueue],
                                     SubSeq(settled, 1, n), weather, elapsedTime)
               IN mid.vehicles[i].isInPit =>
                    Motion(vehicles'[i]) = Motion(mid.vehicles[i])]_vars

====
